---- MODULE Spec2Model ----
(***************************************************************************)
(* A model of the trade-summary pipeline (runner.py,                       *)
(* filtered_summary_aggregator.py, extractor.py, score_calculator.py).     *)
(*                                                                         *)
(* Tables (pandas DataFrames) are records [columns, rows]: columns is the  *)
(* set of column names the model tracks and rows is the sequence of rows,  *)
(* each row a record whose fields are the columns.  A missing cell (NaN)   *)
(* of an integer column is the empty tuple <<>> and a present value v is   *)
(* <<v>>.  Strings that the code takes apart (paths, directory names,      *)
(* scenario tokens) are sequences of one-character strings.                *)
(***************************************************************************)
EXTENDS Integers, Sequences, FiniteSets, TLC

VARIABLES
    filtered_setups_df,   \* sort_filtered_setups_by_summary: its setups argument
    summary_df,           \* sort_filtered_setups_by_summary: its summary argument
    join_result,          \* what the call did: [status, df, csv]
    rank_result,          \* add_rank_column_to_summary: what the call did
    scenario_dir,         \* a scenario directory: [symbol, name, sub, stem]
    tokens,               \* the scenario tokens the two aggregators give it
    pc,                   \* main: the statement main is at
    args,                 \* main: the parsed arguments, [skip_download]
    created,              \* main: the files the run has written in output/upload
    output_tree,          \* main: the scenario directories under output/<symbol>/trades
    filtered_setups_with_rank_df,  \* main: the ranked setups table
    upload_dir,           \* main: the files in output/upload
    uploaded,             \* main: the files s3_client.upload_file was called for
    error,                \* main: the exception that ended the run, if any
    score_df,             \* calculate_z_scores, calculate_zscore_composite_score: df
    z_scores,             \* calculate_z_scores: [column_name, values], once called
    scored_df,            \* calculate_zscore_composite_score: what the call did
    filter_df,            \* filter_strategies: df
    filter_args,          \* filter_strategies: the three thresholds
    df_filtered           \* filter_strategies: the table it returned

joinVars == <<filtered_setups_df, summary_df, join_result, rank_result>>
scenarioVars == <<scenario_dir, tokens>>
mainVars == <<pc, args, created, output_tree, filtered_setups_with_rank_df, upload_dir, uploaded, error>>
scoreVars == <<score_df, z_scores, scored_df, filter_df, filter_args, df_filtered>>
vars == <<joinVars, scenarioVars, mainVars, scoreVars>>

----------------------------------------------------------------------------
(* Bounds of the model.                                                    *)

MaxSetupRows == 2
MaxSummaryRows == 3
MaxNameLen == 7
MaxDirs == 2
MaxScoreRows == 2
MaxFilterRows == 2

----------------------------------------------------------------------------
(* Values.                                                                 *)

NaN == <<>>
isna(x) == x = NaN

\* "no call made yet" / "no DataFrame" (Python's None).
None == [status |-> "none"]

\* The sequences over S of length at most n.
SeqUpTo(S, n) == UNION {[1..k -> S] : k \in 0..n}

\* The record r restricted to the fields in cols.
Project(r, cols) == [c \in (DOMAIN r) \cap cols |-> r[c]]

RECURSIVE Concat(_)
\* The concatenation of a sequence of sequences.
Concat(ss) == IF ss = <<>> THEN <<>> ELSE Head(ss) \o Concat(Tail(ss))

\* Scenario tokens and trader ids of the join's inputs: the two tokens
\* differ only by letter case.
s_x == <<"s", "_", "x">>
s_X == <<"s", "_", "X">>
Scenarios == {s_x, s_X}
Traders == {"t1", "t2"}

----------------------------------------------------------------------------
(* runner.py: sort_filtered_setups_by_summary                              *)

\* order_df: the summary's key columns renamed to lowercase, with the row's
\* position as sort_order.
OrderDf(summary) ==
    [i \in 1..Len(summary.rows) |->
        [scenario   |-> summary.rows[i].Scenario,
         traderid   |-> summary.rows[i].TraderID,
         sort_order |-> <<i - 1>>]]

\* A mutant of KeyEq: keys compared after lowercasing the scenario token.
LowerChar(c) == IF c = "X" THEN "x" ELSE c
Lower(s) == [i \in DOMAIN s |-> LowerChar(s[i])]
KeyEqIgnoreCase(a, b) ==
    Lower(a.scenario) = Lower(b.scenario) /\ a.traderid = b.traderid

\* pd.merge(..., on=['scenario', 'traderid']): two rows join when both key
\* cells are equal.
KeyEq(a, b) == a.scenario = b.scenario /\ a.traderid = b.traderid

\* The rows a left merge makes of one left row: one per matching right row,
\* in the right table's order, or the row itself with a missing sort_order.
MergeRow(row, order) ==
    LET m == SelectSeq(order, LAMBDA o : KeyEq(row, o))
    IN  IF m = <<>>
        THEN << row @@ ("sort_order" :> NaN) >>
        ELSE [j \in 1..Len(m) |-> row @@ ("sort_order" :> m[j].sort_order)]

\* A mutant of Merge: how='inner', which drops the unmatched left rows.
MergeInner(rows, order) ==
    Concat([i \in 1..Len(rows) |->
        LET m == SelectSeq(order, LAMBDA o : KeyEq(rows[i], o))
        IN  [j \in 1..Len(m) |-> rows[i] @@ ("sort_order" :> m[j].sort_order)]])

\* pd.merge(filtered_setups_df, order_df, how='left', on=[...]): the left
\* rows in their order, each with its matches.
Merge(rows, order) ==
    Concat([i \in 1..Len(rows) |-> MergeRow(rows[i], order)])

RECURSIVE Shuffles(_)
\* The orders the elements of a sequence can be put in.
Shuffles(seq) ==
    IF seq = <<>> THEN {<<>>}
    ELSE UNION {{<<seq[i]>> \o t :
                    t \in Shuffles(SubSeq(seq, 1, i - 1) \o SubSeq(seq, i + 1, Len(seq)))} :
                i \in 1..Len(seq)}

RECURSIVE Argsort(_, _)
\* argsort(kind='quicksort') of rows without missing cells in col: the rows
\* ascending by their cell.  numpy's quicksort is not a stable sort, and
\* which order it leaves rows of equal cells in depends on the build (an
\* insertion sort for short arrays in one, a vectorised sorting network in
\* another): every order of such rows is an outcome.
Argsort(rows, col) ==
    IF rows = <<>> THEN {<<>>}
    ELSE LET least == CHOOSE i \in 1..Len(rows) :
                          \A j \in 1..Len(rows) : ~(rows[j][col][1] < rows[i][col][1])
             ties == SelectSeq(rows, LAMBDA r : r[col] = rows[least][col])
             rest == SelectSeq(rows, LAMBDA r : r[col] # rows[least][col])
         IN  {t \o u : t \in Shuffles(ties), u \in Argsort(rest, col)}

Reverse(seq) == [i \in 1..Len(seq) |-> seq[Len(seq) + 1 - i]]

\* pandas' nargsort with na_position='last': the rows with a cell in col
\* sorted, descending by sorting the reversed rows and reversing the result,
\* then the rows whose cell is missing, in their order.
Nargsort(rows, col, ascending) ==
    LET non_nans == SelectSeq(rows, LAMBDA r : ~isna(r[col]))
        nans == SelectSeq(rows, LAMBDA r : isna(r[col]))
    IN  IF ascending
        THEN {o \o nans : o \in Argsort(non_nans, col)}
        ELSE {Reverse(o) \o nans : o \in Argsort(Reverse(non_nans), col)}

\* A mutant of SortValues: the merged rows left in merge order.
SortValuesSkipped(rows) == {rows}

\* merged_df.sort_values(by='sort_order', na_position='last')
SortValues(rows) == Nargsort(rows, "sort_order", TRUE)

\* merged_df.drop(columns=['sort_order'])
DropSortOrder(rows) ==
    [i \in 1..Len(rows) |-> Project(rows[i], (DOMAIN rows[i]) \ {"sort_order"})]

\* A call's outcome: status "returned" with the DataFrame returned and
\* the table written to output_file, or status "raised" with nothing
\* written.
Returned(df) == [status |-> "returned", df |-> df, csv |-> df]
Raised == [status |-> "raised", df |-> None, csv |-> None]

\* sort_filtered_setups_by_summary(filtered_setups_df, summary_df, ...): the
\* outcomes the call can have, one for each order the sort can give.
sort_filtered_setups_by_summary(setups, summary) ==
    IF ~({"scenario", "traderid"} \subseteq setups.columns)
    THEN {Returned(setups)}
    ELSE IF ~({"Scenario", "TraderID"} \subseteq summary.columns)
    THEN {Returned(setups)}
    ELSE LET merged == Merge(setups.rows, OrderDf(summary))
             unmerged_count ==
                 Cardinality({i \in 1..Len(merged) : isna(merged[i].sort_order)})
         IN  IF unmerged_count > 0
             THEN {Raised}
             ELSE {Returned([columns |-> setups.columns,
                             rows    |-> DropSortOrder(sorted)]) :
                      sorted \in SortValues(merged)}

\* The variables of the parts of the model a specification does not run.
NoJoinCall ==
    /\ filtered_setups_df = None /\ summary_df = None
    /\ join_result = None /\ rank_result = None
NoScenarioCall == scenario_dir = None /\ tokens = None
NoRun ==
    /\ pc = "idle" /\ output_tree = None /\ filtered_setups_with_rank_df = None
    /\ upload_dir = {} /\ uploaded = {} /\ error = "none"
    /\ args = None /\ created = {}
NoScoreCall ==
    /\ score_df = None /\ z_scores = None /\ scored_df = None
    /\ filter_df = None /\ filter_args = None /\ df_filtered = None

----------------------------------------------------------------------------
(* runner.py: add_rank_column_to_summary, add_rank_column_to_filtered_setups *)

\* A mutant of InsertRank: the ranks counted from 0.
InsertRankFromZero(rows) == [i \in 1..Len(rows) |-> rows[i] @@ ("Rank" :> i - 1)]

\* df.insert(0, 'Rank', range(1, len(df) + 1)) on the rows.
InsertRank(rows) == [i \in 1..Len(rows) |-> rows[i] @@ ("Rank" :> i)]

\* df.insert raises ValueError when the table already has a Rank column.
AddRankColumn(df) ==
    IF df = None THEN [status |-> "returned", df |-> None]
    ELSE IF "Rank" \in df.columns THEN [status |-> "raised", df |-> None]
    ELSE [status |-> "returned",
          df |-> [columns |-> df.columns \cup {"Rank"}, rows |-> InsertRank(df.rows)]]

add_rank_column_to_summary(df) == AddRankColumn(df)

add_rank_column_to_filtered_setups(df) == AddRankColumn(df)

----------------------------------------------------------------------------
(* Scenario tokens: filtered_summary_aggregator.py and runner.py           *)
(*                                                                         *)
(* A path is the sequence of its segments (the text between separators),   *)
(* each a sequence of characters.                                          *)

Str_output == <<"o", "u", "t", "p", "u", "t">>
Str_trades == <<"t", "r", "a", "d", "e", "s">>
Str_btc == <<"b", "t", "c">>
unknown_scenario == <<"u", "n", "k", "n", "o", "w", "n", "_",
                      "s", "c", "e", "n", "a", "r", "i", "o">>
\* "_filtered_summary.csv"
SummarySuffix == <<"_", "f", "i", "l", "t", "e", "r", "e", "d", "_",
                   "s", "u", "m", "m", "a", "r", "y", ".", "c", "s", "v">>

StartsWith_s_(str) == Len(str) >= 2 /\ str[1] = "s" /\ str[2] = "_"

\* The places in segment seg where s_[^/]+? followed by (?=/|$) matches: an
\* "s", a "_" and at least one more character of the segment.  The lazy
\* [^/]+? then runs to the end of the segment, where "/" or the end follows.
SegMatches(seg) ==
    {i \in 1..Len(seg) : i + 2 <= Len(seg) /\ seg[i] = "s" /\ seg[i + 1] = "_"}

RECURSIVE SearchRoot(_)
\* re.search(r'(s_[^/]+?)(?=/|$)', root): group 1 of the leftmost match in
\* the path root, or NaN when nothing matches.
SearchRoot(root) ==
    IF root = <<>> THEN NaN
    ELSE LET ms == SegMatches(Head(root))
         IN  IF ms # {}
             THEN LET i == CHOOSE x \in ms : \A y \in ms : x <= y
                  IN  << SubSeq(Head(root), i, Len(Head(root))) >>
             ELSE SearchRoot(Tail(root))

\* The text at k+1.. of filename matches '_filtered_summary.csv' (the
\* pattern's "." matches any character).
SuffixAt(filename, k) ==
    /\ k + Len(SummarySuffix) <= Len(filename)
    /\ \A j \in 1..Len(SummarySuffix) :
          SummarySuffix[j] = "." \/ filename[k + j] = SummarySuffix[j]

\* re.match(r'(s_.*?)(?=_filtered_summary.csv)', filename): group 1, the
\* shortest prefix s_... that the suffix pattern follows, or NaN.
MatchFilename(filename) ==
    LET ks == {k \in 2..Len(filename) : SuffixAt(filename, k)}
    IN  IF StartsWith_s_(filename) /\ ks # {}
        THEN << SubSeq(filename, 1, CHOOSE k \in ks : \A y \in ks : k <= y) >>
        ELSE NaN

\* aggregate_filtered_summary_files: the Scenario of the rows of the file
\* filename found in directory root.
SummaryScenario(root, filename) ==
    LET param_pattern == SearchRoot(root)
    IN  IF isna(param_pattern) /\ StartsWith_s_(filename)
        THEN LET param_pattern_in_file == MatchFilename(filename)
             IN  IF ~isna(param_pattern_in_file)
                 THEN param_pattern_in_file[1]
                 ELSE unknown_scenario
        ELSE IF ~isna(param_pattern)
        THEN param_pattern[1]
        ELSE unknown_scenario

\* aggregate_filtered_setup_files: the scenario of the rows of the file at
\* path_parts (the path split at the separator): the part after the first
\* part that is 'trades'.
SetupScenario(path_parts) ==
    LET at == {i \in 1..Len(path_parts) : path_parts[i] = Str_trades}
    IN  IF at # {}
        THEN LET trades_index == CHOOSE i \in at : \A j \in at : i <= j
             IN  IF trades_index + 1 <= Len(path_parts)
                 THEN path_parts[trades_index + 1]
                 ELSE unknown_scenario
        ELSE unknown_scenario

\* The directory holding a scenario's summary file, and the parts of the
\* path of its setup file (output/*/trades/*/trades/filtered-*.csv).
SummaryRoot(d) == <<Str_output, d.symbol, Str_trades, d.name>> \o d.sub
SummaryFilename(d) == d.stem \o SummarySuffix
SetupFilename == <<"f", "i", "l", "t", "e", "r", "e", "d", "-", "1", ".", "c", "s", "v">>
SetupPathParts(d) ==
    <<Str_output, d.symbol, Str_trades, d.name, Str_trades, SetupFilename>>

----------------------------------------------------------------------------
(* The two token rules on their own: any scenario directory.               *)

\* Directory names: the characters that decide the rules ("s", "_") and one
\* other; b___s_b is a name of the downloader's form backTestId___s_params.
NameChars == {"s", "_", "b"}
DirNames == UNION {[1..k -> NameChars] : k \in 1..MaxNameLen}
SymbolNames == {Str_btc, <<"g", "a", "s", "_", "1">>}
\* Where under the scenario directory the summary file lies, and the part
\* of its name before _filtered_summary.csv.
SubPaths == {<<>>, <<Str_trades>>}
Stems == {<<"a">>, <<"s", "_", "b">>}

ScenarioDirs == [symbol : SymbolNames, name : DirNames, sub : SubPaths, stem : Stems]

InitScenario ==
    /\ scenario_dir \in ScenarioDirs
    /\ tokens = None
    /\ NoJoinCall
    /\ NoRun
    /\ NoScoreCall

ExtractTokens ==
    /\ scenario_dir # None
    /\ tokens = None
    /\ tokens' = [status  |-> "extracted",
                  summary |-> SummaryScenario(SummaryRoot(scenario_dir),
                                              SummaryFilename(scenario_dir)),
                  setup   |-> SetupScenario(SetupPathParts(scenario_dir))]
    /\ UNCHANGED <<scenario_dir, joinVars, mainVars, scoreVars>>

NextScenario == ExtractTokens

SpecScenario == InitScenario /\ [][NextScenario]_vars

\* extractor.py, download_and_unzip_all_trades: the directory name for the
\* archive key .../back_test_id/<symbol>/scenario_params.zip of symbol.
ExtractorScenario(back_test_id, scenario_params, symbol) ==
    IF back_test_id # <<>> /\ back_test_id # symbol
    THEN back_test_id \o <<"_", "_", "_">> \o scenario_params
    ELSE scenario_params

\* The directory of the archive b/btc/s_b.zip.
DownloadedName == ExtractorScenario(<<"b">>, <<"s", "_", "b">>, Str_btc)

\* C4, for the directories the downloader makes (backTestId___s_params): the
\* summary aggregator and the setup aggregator give the files of one
\* scenario directory the same scenario token.
C4_SameTokenDownloaded ==
    (/\ tokens # None
     /\ scenario_dir.name = DownloadedName
     /\ scenario_dir.symbol = Str_btc) => tokens.summary = tokens.setup

----------------------------------------------------------------------------
(* The files of a scenario directory.                                      *)
(*                                                                         *)
(* A file is [kind, rows]: kind "csv" is a file read_csv parses (rows may  *)
(* be empty: a header only), "empty" a file of no bytes, for which         *)
(* read_csv raises "No columns to parse from file", "garbled" a file for   *)
(* which it raises another error, and "absent" no file.                    *)

NoFile == [kind |-> "absent", rows |-> <<>>]
Csv(rows) == [kind |-> "csv", rows |-> rows]

\* The set of columns of a sequence of frames, and their rows one after
\* the other with the cells of columns a frame lacks missing (pd.concat).
ConcatColumns(dfs) == UNION {dfs[i].columns : i \in 1..Len(dfs)}
FillRow(row, cols) == row @@ [c \in cols \ DOMAIN row |-> NaN]
ConcatFrames(dfs) ==
    [columns |-> ConcatColumns(dfs),
     rows    |-> Concat([i \in 1..Len(dfs) |->
                    [j \in 1..Len(dfs[i].rows) |->
                        FillRow(dfs[i].rows[j], ConcatColumns(dfs))]])]

----------------------------------------------------------------------------
(* filtered_summary_aggregator.py: aggregate_filtered_summary_files        *)

\* The header of the run's summary files: the score and, unless
\* tid_column is "", the trader-id column under the name the files give it,
\* before the score or after it.
SummaryHeader(tree) ==
    IF tree.tid_column = "" THEN <<"CompositeScore">>
    ELSE IF tree.tid_position = 1 THEN <<tree.tid_column, "CompositeScore">>
    ELSE <<"CompositeScore", tree.tid_column>>

ColumnsOf(header) == {header[k] : k \in 1..Len(header)}

\* df.columns.get_loc(name), and df.insert(loc, name, ...) on the header.
get_loc(header, name) == (CHOOSE k \in 1..Len(header) : header[k] = name) - 1
insert(header, loc, name) ==
    SubSeq(header, 1, loc) \o <<name>> \o SubSeq(header, loc + 1, Len(header))

\* A mutant of InsertScenario: the trader-id column is found under the
\* name traderid too.
InsertScenarioAnyCasing(header) ==
    IF "TraderID" \in ColumnsOf(header)
    THEN insert(header, get_loc(header, "TraderID") + 1, "Scenario")
    ELSE IF "traderId" \in ColumnsOf(header)
    THEN insert(header, get_loc(header, "traderId") + 1, "Scenario")
    ELSE IF "traderid" \in ColumnsOf(header)
    THEN insert(header, get_loc(header, "traderid") + 1, "Scenario")
    ELSE insert(header, 0, "Scenario")

\* The header after the Scenario column is added: after TraderID, else
\* after traderId, else first.
InsertScenario(header) ==
    IF "TraderID" \in ColumnsOf(header)
    THEN insert(header, get_loc(header, "TraderID") + 1, "Scenario")
    ELSE IF "traderId" \in ColumnsOf(header)
    THEN insert(header, get_loc(header, "traderId") + 1, "Scenario")
    ELSE insert(header, 0, "Scenario")

\* The frame made of one directory's summary file: its rows, each with the
\* trader id under the file's column name and the score, and the Scenario
\* column inserted.
SummaryFrame(tree, dir) ==
    LET scenario == SummaryScenario(
            <<Str_output, tree.symbol, Str_trades, dir.name>>,
            <<"a">> \o SummarySuffix)
        header == InsertScenario(SummaryHeader(tree))
    IN  [columns |-> ColumnsOf(header),
         header  |-> header,
         rows    |-> [j \in 1..Len(dir.summary.rows) |->
                        [c \in ColumnsOf(header) |->
                            IF c = "CompositeScore" THEN dir.summary.rows[j].score
                            ELSE IF c = "Scenario" THEN scenario
                            ELSE dir.summary.rows[j].trader]]]

\* The walk over the tree: a frame for every summary file that read_csv
\* parses; an exception while reading a file is printed and the file is
\* left out.  With no frame the call raises; otherwise the frames are
\* concatenated, sorted by CompositeScore descending and written.  The
\* outcomes of the call, one for each order the sort can give.
aggregate_filtered_summary_files(tree) ==
    LET found == SelectSeq(tree.dirs, LAMBDA d : d.summary.kind = "csv")
        aggregated_df_list == [i \in 1..Len(found) |-> SummaryFrame(tree, found[i])]
    IN  IF aggregated_df_list = <<>>
        THEN {Raised}
        ELSE LET combined_df == [columns |-> ConcatColumns(aggregated_df_list),
                                 header  |-> aggregated_df_list[1].header,
                                 rows    |-> ConcatFrames(aggregated_df_list).rows]
             IN  IF "CompositeScore" \in combined_df.columns
                 THEN {Returned([combined_df EXCEPT !.rows = sorted]) :
                          sorted \in Nargsort(combined_df.rows, "CompositeScore", FALSE)}
                 ELSE {Returned(combined_df)}

----------------------------------------------------------------------------
(* runner.py: aggregate_filtered_setup_files                               *)

RECURSIVE SplitHead(_)
\* str.split("_")[0]
SplitHead(str) ==
    IF str = <<>> \/ Head(str) = "_" THEN <<>>
    ELSE <<Head(str)>> \o SplitHead(Tail(str))

\* The frame made of one directory's setup file: the scenario column
\* inserted first and the Symbol column added.  The parameter columns
\* dayofweek ... outoftime are carried as one column, params, which the
\* run's setup files either all have or all lack.
SetupFrame(tree, dir) ==
    LET path_parts ==
            <<Str_output, tree.symbol, Str_trades, dir.name, Str_trades, SetupFilename>>
        file_columns == IF tree.parameter_columns THEN {"traderid", "params"}
                        ELSE {"traderid"}
    IN  [columns |-> {"scenario", "Symbol"} \cup file_columns,
         rows    |-> [j \in 1..Len(dir.setups.rows) |->
                        Project([scenario |-> SetupScenario(path_parts),
                                 traderid |-> dir.setups.rows[j],
                                 params   |-> <<dir.name, j>>,
                                 Symbol   |-> SplitHead(path_parts[2])],
                                {"scenario", "Symbol"} \cup file_columns)]]

\* A mutant of aggregate_filtered_setup_files: a file whose read raises is
\* skipped whatever the error.
aggregate_filtered_setup_files_skip_any(tree) ==
    LET setup_files == SelectSeq(tree.dirs, LAMBDA d : d.setups.kind # "absent")
        parsed == SelectSeq(setup_files, LAMBDA d : d.setups.kind = "csv")
        dfs == [i \in 1..Len(parsed) |-> SetupFrame(tree, parsed[i])]
    IN  IF setup_files = <<>> THEN Raised
        ELSE IF dfs = <<>> THEN Raised
        ELSE Returned(ConcatFrames(dfs))

\* The glob finds the setup files; with none the call raises.  A file
\* whose read raises "No columns to parse from file" is skipped, any other
\* error is raised again; with no frame left the call raises.
aggregate_filtered_setup_files(tree) ==
    LET setup_files == SelectSeq(tree.dirs, LAMBDA d : d.setups.kind # "absent")
        parsed == SelectSeq(setup_files, LAMBDA d : d.setups.kind = "csv")
        dfs == [i \in 1..Len(parsed) |-> SetupFrame(tree, parsed[i])]
    IN  IF setup_files = <<>> THEN Raised
        ELSE IF \E i \in 1..Len(setup_files) : setup_files[i].setups.kind = "garbled"
        THEN Raised
        ELSE IF dfs = <<>> THEN Raised
        ELSE Returned(ConcatFrames(dfs))

----------------------------------------------------------------------------
(* runner.py: reorder_aggregated_summary, copy_graphs_to_directory,        *)
(* create_setups_file                                                      *)

\* to_csv followed by read_csv.  The cells of the model's tables (scenario
\* tokens, trader ids, integers, missing cells) are read back as written.
ReadCsv(csv) == csv

\* reorder_aggregated_summary: the table read from the aggregated file (the
\* Scenario column moved first; the order of columns is not kept here).
reorder_aggregated_summary(csv) ==
    [columns |-> ReadCsv(csv).columns, rows |-> ReadCsv(csv).rows]

\* A file of the upload directory: a table by its name, or the graph or the
\* trade log of a trader of a scenario.
UploadFile(dir, name, scenario, trader) ==
    [dir |-> dir, name |-> name, scenario |-> scenario, trader |-> trader]
TableFile(name) == UploadFile("", name, <<>>, "")

\* copy_graphs_to_directory reads row['TraderID'] and row['Scenario'] of
\* every row of the final summary file: a KeyError when a row lacks one.
CopyGraphsRaises(df) ==
    Len(df.rows) > 0 /\ ~({"TraderID", "Scenario"} \subseteq df.columns)

\* The files it copies: for each row, the graph and the trade log found by
\* the glob output/<symbol>*/trades/<Scenario>/..., which are taken to exist
\* for the traders of the summary file of a directory of that name.
CopiedFiles(tree, df) ==
    {UploadFile(d, "", df.rows[i].Scenario, df.rows[i].TraderID) :
        d \in {"graphs", "trades"},
        i \in {i \in 1..Len(df.rows) :
                \E k \in 1..Len(tree.dirs) :
                    /\ tree.dirs[k].name = df.rows[i].Scenario
                    /\ \E j \in 1..Len(tree.dirs[k].summary.rows) :
                          tree.dirs[k].summary.rows[j].trader = df.rows[i].TraderID}}

\* create_setups_file: "none" (returns None, nothing written) when a
\* required column is missing, "raised" (IndexError at .iloc[0]) when the
\* table has no row, else "written".  params stands for the parameter
\* columns dayofweek ... outoftime.
create_setups_file(df) ==
    IF ~({"traderid", "params"} \subseteq df.columns) THEN "none"
    ELSE IF Len(df.rows) = 0 THEN "raised"
    ELSE "written"

----------------------------------------------------------------------------
(* runner.py: main                                                         *)
(*                                                                         *)
(* The run starts at the directory set-up.  output_tree is the listing of   *)
(* output/<symbol>/trades the aggregators see (the archives extracted, or   *)
(* with --skip-download what the directory holds), in the order os.walk    *)
(* and glob give it.                                                       *)

SummaryFiles ==
    {NoFile} \cup
    {Csv(r) : r \in {<< [trader |-> "t1", score |-> <<2>>] >>,
                     << [trader |-> "t2", score |-> <<2>>],
                        [trader |-> "t1", score |-> <<1>>] >>}}
SetupFiles ==
    {NoFile} \cup {Csv(r) : r \in {<<>>, <<"t1">>}}

\* Directory names: a plain token, another, and the downloader's form.
MainDirNames == {<<"s", "_", "b">>, <<"s", "_", "s">>, DownloadedName}

DirSeqs ==
    {d \in SeqUpTo([name : MainDirNames, summary : SummaryFiles, setups : SetupFiles],
                   MaxDirs) :
        \A i, j \in 1..Len(d) : i # j => d[i].name # d[j].name}

Trees ==
    [symbol : {Str_btc}, tid_column : {"TraderID", "traderId"}, tid_position : {1},
     parameter_columns : BOOLEAN, dirs : DirSeqs]

\* main is started without --skip-download, on a machine where no earlier
\* run left an output directory.
Init ==
    /\ output_tree \in Trees
    /\ args = [skip_download |-> FALSE]
    /\ created = {}
    /\ pc = "make_directories"
    /\ summary_df = None
    /\ filtered_setups_df = None
    /\ join_result = None
    /\ rank_result = None
    /\ filtered_setups_with_rank_df = None
    /\ upload_dir = {}
    /\ uploaded = {}
    /\ error = "none"
    /\ NoScenarioCall
    /\ NoScoreCall

\* An uncaught exception ends main.
Abort(e) == pc' = "aborted" /\ error' = e

\* The directory set-up: without --skip-download the output directory is
\* deleted with all it holds and made again; with it the directory is kept.
\* os.makedirs(upload_dir, exist_ok=True) keeps what the upload directory
\* holds.
MakeDirectories ==
    /\ pc = "make_directories"
    /\ upload_dir' = IF args.skip_download THEN upload_dir ELSE {}
    /\ pc' = "aggregate_summary"
    /\ UNCHANGED <<filtered_setups_df, summary_df, join_result, rank_result,
                   output_tree, args, created, filtered_setups_with_rank_df,
                   uploaded, error, scenarioVars, scoreVars>>

\* aggregate_filtered_summary_files(base_output_dir, temp_aggregated_file_path)
AggregateSummary ==
    /\ pc = "aggregate_summary"
    /\ \E r \in aggregate_filtered_summary_files(output_tree) :
           IF r.status = "raised"
           THEN Abort("no_summary_files") /\ UNCHANGED summary_df
           ELSE pc' = "reorder_summary" /\ summary_df' = r.csv /\ UNCHANGED error
    /\ UNCHANGED <<filtered_setups_df, join_result, rank_result, output_tree, args, created,
                   filtered_setups_with_rank_df, upload_dir, uploaded, scenarioVars, scoreVars>>

\* summary_df = reorder_aggregated_summary(...)
ReorderSummary ==
    /\ pc = "reorder_summary"
    /\ summary_df' = reorder_aggregated_summary(summary_df)
    /\ pc' = "rank_summary"
    /\ UNCHANGED <<filtered_setups_df, join_result, rank_result, output_tree, args, created,
                   filtered_setups_with_rank_df, upload_dir, uploaded, error,
                   scenarioVars, scoreVars>>

\* summary_with_rank_df = add_rank_column_to_summary(summary_df), saved to
\* upload/aggregated_filtered_summary.csv.
RankSummary ==
    /\ pc = "rank_summary"
    /\ LET r == add_rank_column_to_summary(summary_df)
       IN  IF r.status = "raised"
           THEN Abort("rank_exists") /\ UNCHANGED <<summary_df, upload_dir, created>>
           ELSE /\ summary_df' = r.df
                /\ upload_dir' = upload_dir \cup
                                 {TableFile("aggregated_filtered_summary.csv")}
                /\ created' = created \cup
                              {TableFile("aggregated_filtered_summary.csv")}
                /\ pc' = "copy_graphs"
                /\ UNCHANGED error
    /\ UNCHANGED <<filtered_setups_df, join_result, rank_result, output_tree, args,
                   filtered_setups_with_rank_df, uploaded, scenarioVars, scoreVars>>

\* copy_graphs_to_directory(symbol, final_aggregated_file_path, ...)
CopyGraphs ==
    /\ pc = "copy_graphs"
    /\ IF CopyGraphsRaises(summary_df)
       THEN Abort("key_error") /\ UNCHANGED <<upload_dir, created>>
       ELSE /\ upload_dir' = upload_dir \cup CopiedFiles(output_tree, summary_df)
            /\ created' = created \cup CopiedFiles(output_tree, summary_df)
            /\ pc' = "aggregate_setups"
            /\ UNCHANGED error
    /\ UNCHANGED <<filtered_setups_df, summary_df, join_result, rank_result,
                   output_tree, args, filtered_setups_with_rank_df, uploaded, scenarioVars, scoreVars>>

\* filtered_setups_df = aggregate_filtered_setup_files(temp_filtered_setups_path)
AggregateSetups ==
    /\ pc = "aggregate_setups"
    /\ LET r == aggregate_filtered_setup_files(output_tree)
       IN  IF r.status = "raised"
           THEN Abort("no_setup_files") /\ UNCHANGED filtered_setups_df
           ELSE pc' = "sort_setups" /\ filtered_setups_df' = r.df /\ UNCHANGED error
    /\ UNCHANGED <<summary_df, join_result, rank_result, output_tree, args, created,
                   filtered_setups_with_rank_df, upload_dir, uploaded, scenarioVars, scoreVars>>

\* A mutant of SortSetups: the join's exception is swallowed and the run
\* goes on with the setups as aggregated.
SortSetupsSwallowed ==
    /\ pc = "sort_setups"
    /\ \E r \in sort_filtered_setups_by_summary(filtered_setups_df, summary_df) :
           IF r.status = "raised"
           THEN /\ join_result' = Returned(filtered_setups_df)
                /\ pc' = "rank_setups"
                /\ error' = "unmatched_setup_row"
           ELSE pc' = "rank_setups" /\ join_result' = r /\ UNCHANGED error
    /\ UNCHANGED <<filtered_setups_df, summary_df, rank_result, output_tree, args, created,
                   filtered_setups_with_rank_df, upload_dir, uploaded, scenarioVars, scoreVars>>

\* sorted_filtered_setups_df = sort_filtered_setups_by_summary(
\*     filtered_setups_df, summary_with_rank_df, ...)
SortSetups ==
    /\ pc = "sort_setups"
    /\ \E r \in sort_filtered_setups_by_summary(filtered_setups_df, summary_df) :
           IF r.status = "raised"
           THEN Abort("unmatched_setup_row") /\ join_result' = r
           ELSE pc' = "rank_setups" /\ join_result' = r /\ UNCHANGED error
    /\ UNCHANGED <<filtered_setups_df, summary_df, rank_result, output_tree, args, created,
                   filtered_setups_with_rank_df, upload_dir, uploaded, scenarioVars, scoreVars>>

\* filtered_setups_with_rank_df = add_rank_column_to_filtered_setups(...),
\* saved to upload/filtered-setups.csv.
RankSetups ==
    /\ pc = "rank_setups"
    /\ LET r == add_rank_column_to_filtered_setups(join_result.df)
       IN  IF r.status = "raised"
           THEN Abort("rank_exists")
                /\ UNCHANGED <<filtered_setups_with_rank_df, upload_dir, created>>
           ELSE /\ filtered_setups_with_rank_df' = r.df
                /\ upload_dir' = upload_dir \cup {TableFile("filtered-setups.csv")}
                /\ created' = created \cup {TableFile("filtered-setups.csv")}
                /\ pc' = "create_setups_file"
                /\ UNCHANGED error
    /\ UNCHANGED <<filtered_setups_df, summary_df, join_result, rank_result,
                   output_tree, args, uploaded, scenarioVars, scoreVars>>

\* create_setups_file(filtered_setups_with_rank_df, final_setups_path)
CreateSetupsFile ==
    /\ pc = "create_setups_file"
    /\ LET r == create_setups_file(filtered_setups_with_rank_df)
       IN  IF r = "raised"
           THEN Abort("index_error") /\ UNCHANGED <<upload_dir, created>>
           ELSE /\ upload_dir' = IF r = "written"
                                 THEN upload_dir \cup {TableFile("setups.csv")}
                                 ELSE upload_dir
                /\ created' = IF r = "written"
                              THEN created \cup {TableFile("setups.csv")}
                              ELSE created
                /\ pc' = "upload"
                /\ UNCHANGED error
    /\ UNCHANGED <<filtered_setups_df, summary_df, join_result, rank_result,
                   output_tree, args, filtered_setups_with_rank_df, uploaded, scenarioVars, scoreVars>>

\* One turn of the loop over os.walk(upload_dir): s3_client.upload_file for
\* the next file of the listing (the listing's order is a fixed one).
Upload ==
    /\ pc = "upload"
    /\ upload_dir \ uploaded # {}
    /\ uploaded' = uploaded \cup {CHOOSE f \in upload_dir \ uploaded : TRUE}
    /\ UNCHANGED <<pc, filtered_setups_df, summary_df, join_result, rank_result,
                   output_tree, args, created, filtered_setups_with_rank_df, upload_dir, error,
                   scenarioVars, scoreVars>>

\* The loop is over: main returns.
Finish ==
    /\ pc = "upload"
    /\ upload_dir \ uploaded = {}
    /\ pc' = "done"
    /\ UNCHANGED <<filtered_setups_df, summary_df, join_result, rank_result,
                   output_tree, args, created, filtered_setups_with_rank_df, upload_dir, uploaded,
                   error, scenarioVars, scoreVars>>

Next ==
    \/ MakeDirectories
    \/ AggregateSummary
    \/ ReorderSummary
    \/ RankSummary
    \/ CopyGraphs
    \/ AggregateSetups
    \/ SortSetups
    \/ RankSetups
    \/ CreateSetupsFile
    \/ Upload
    \/ Finish

Spec == Init /\ [][Next]_vars

----------------------------------------------------------------------------
(* main on trees chosen for the summary aggregation: summary files with    *)
(* no row, of no bytes and unreadable, and headers with the trader-id      *)
(* column under three names, in two places, or without it.                 *)

EmptyFile == [kind |-> "empty", rows |-> <<>>]
GarbledFile == [kind |-> "garbled", rows |-> <<>>]

AggregateSummaryFiles ==
    {NoFile, EmptyFile, GarbledFile, Csv(<<>>), Csv(<< [trader |-> "t1", score |-> <<2>>] >>)}
AggregateSetupFiles == {NoFile, EmptyFile, GarbledFile, Csv(<<"t1">>)}

AggregateDirSeqs ==
    {d \in SeqUpTo([name : {<<"s", "_", "b">>, <<"s", "_", "s">>},
                    summary : AggregateSummaryFiles, setups : AggregateSetupFiles],
                   MaxDirs) :
        \A i, j \in 1..Len(d) : i # j => d[i].name # d[j].name}

AggregateTrees ==
    [symbol : {Str_btc}, tid_column : {"TraderID", "traderId", "traderid", ""},
     tid_position : {1, 2}, parameter_columns : {TRUE}, dirs : AggregateDirSeqs]

InitAggregate ==
    /\ output_tree \in AggregateTrees
    /\ args = [skip_download |-> FALSE]
    /\ created = {}
    /\ pc = "make_directories"
    /\ summary_df = None
    /\ filtered_setups_df = None
    /\ join_result = None
    /\ rank_result = None
    /\ filtered_setups_with_rank_df = None
    /\ upload_dir = {}
    /\ uploaded = {}
    /\ error = "none"
    /\ NoScenarioCall
    /\ NoScoreCall

SpecAggregate == InitAggregate /\ [][Next]_vars

----------------------------------------------------------------------------
(* main started again on a machine where an earlier run left its upload    *)
(* directory, with or without --skip-download.                             *)

\* What an earlier run can have left in output/upload: nothing, or its
\* simplified setups export and the graph of one of its traders.
Leftovers ==
    {{}, {TableFile("setups.csv"), UploadFile("graphs", "", <<"s", "_", "s">>, "t1")}}

RerunTrees ==
    [symbol : {Str_btc}, tid_column : {"TraderID"}, tid_position : {1},
     parameter_columns : BOOLEAN,
     dirs : {d \in SeqUpTo([name : {<<"s", "_", "b">>, <<"s", "_", "s">>},
                            summary : {NoFile,
                                       Csv(<< [trader |-> "t1", score |-> <<2>>] >>)},
                            setups : {NoFile, Csv(<<>>), Csv(<<"t1">>)}],
                           MaxDirs) :
                \A i, j \in 1..Len(d) : i # j => d[i].name # d[j].name}]

InitRerun ==
    /\ output_tree \in RerunTrees
    /\ args \in [skip_download : BOOLEAN]
    /\ created = {}
    /\ pc = "make_directories"
    /\ summary_df = None
    /\ filtered_setups_df = None
    /\ join_result = None
    /\ rank_result = None
    /\ filtered_setups_with_rank_df = None
    /\ upload_dir \in Leftovers
    /\ uploaded = {}
    /\ error = "none"
    /\ NoScenarioCall
    /\ NoScoreCall

SpecRerun == InitRerun /\ [][Next]_vars

----------------------------------------------------------------------------
(* The join on its own: any setups table and any summary table.            *)

\* Setup rows: the key cells and params, which stands for the row's
\* parameter cells (here the row's position in the input, so that every
\* input row is different).
SetupRowsOver(cols) ==
    {[i \in 1..Len(s) |-> Project(s[i], cols) @@ ("params" :> i)] :
        s \in SeqUpTo([scenario : Scenarios, traderid : Traders], MaxSetupRows)}

SetupTables ==
    UNION {{[columns |-> cols \cup {"params"}, rows |-> r] : r \in SetupRowsOver(cols)} :
        cols \in SUBSET {"scenario", "traderid"}}

SummaryRowsOver(cols) ==
    {[i \in 1..Len(s) |-> Project(s[i], cols)] :
        s \in SeqUpTo([Scenario : Scenarios, TraderID : Traders], MaxSummaryRows)}

SummaryTables ==
    UNION {{[columns |-> cols, rows |-> r] : r \in SummaryRowsOver(cols)} :
        cols \in SUBSET {"Scenario", "TraderID"}}

InitJoin ==
    /\ filtered_setups_df \in SetupTables
    /\ summary_df \in SummaryTables
    /\ join_result = None
    /\ rank_result = None
    /\ NoScenarioCall
    /\ NoRun
    /\ NoScoreCall

CallSort ==
    /\ filtered_setups_df # None
    /\ pc = "idle"
    /\ join_result = None
    /\ join_result' \in sort_filtered_setups_by_summary(filtered_setups_df, summary_df)
    /\ UNCHANGED <<filtered_setups_df, summary_df, rank_result, scenarioVars, mainVars, scoreVars>>

CallRank ==
    /\ summary_df # None
    /\ pc = "idle"
    /\ rank_result = None
    /\ rank_result' = add_rank_column_to_summary(summary_df)
    /\ UNCHANGED <<filtered_setups_df, summary_df, join_result, scenarioVars, mainVars, scoreVars>>

NextJoin == CallSort \/ CallRank

SpecJoin == InitJoin /\ [][NextJoin]_vars

----------------------------------------------------------------------------
(* Claims about the join (checked under SpecJoin).                         *)

JoinReturned == join_result.status = "returned"
JoinRaised == join_result.status = "raised"

\* Both tables carry the key columns, so the merge is made.
KeyColumnsPresent ==
    /\ {"scenario", "traderid"} \subseteq filtered_setups_df.columns
    /\ {"Scenario", "TraderID"} \subseteq summary_df.columns

\* The positions of the summary rows whose (Scenario, TraderID) key is the
\* row's (scenario, traderid) key; none when either table lacks a key column.
MatchPositions(row, summary) ==
    IF /\ {"scenario", "traderid"} \subseteq DOMAIN row
       /\ {"Scenario", "TraderID"} \subseteq summary.columns
    THEN {p \in 1..Len(summary.rows) :
            /\ summary.rows[p].Scenario = row.scenario
            /\ summary.rows[p].TraderID = row.traderid}
    ELSE {}

\* Every row of the setups table is a row of the returned table.
EverySetupRowReturned ==
    \A i \in 1..Len(filtered_setups_df.rows) :
        \E j \in 1..Len(join_result.df.rows) :
            join_result.df.rows[j] = filtered_setups_df.rows[i]

\* Every returned row's key is a key of the summary table.
EveryReturnedRowMatched ==
    \A j \in 1..Len(join_result.df.rows) :
        MatchPositions(join_result.df.rows[j], summary_df) # {}

Min(S) == CHOOSE x \in S : \A y \in S : x <= y

RECURSIVE OrderedFrom(_, _, _)
\* Each row of rows can be given a matching summary row at position >= from
\* so that the positions never decrease along rows.
OrderedFrom(rows, summary, from) ==
    IF rows = <<>> THEN TRUE
    ELSE LET ps == {p \in MatchPositions(Head(rows), summary) : p >= from}
         IN  ps # {} /\ OrderedFrom(Tail(rows), summary, Min(ps))

\* C3: when the call returns after the merge, the returned rows are in the
\* order of their matching summary rows (a row's match is never at a later
\* position than the match of a row after it), and no returned row keeps a
\* sort_order cell.
C3_SummaryOrder ==
    JoinReturned =>
        /\ KeyColumnsPresent => OrderedFrom(join_result.df.rows, summary_df, 1)
        /\ \A j \in 1..Len(join_result.df.rows) :
              "sort_order" \notin DOMAIN join_result.df.rows[j]
        /\ "sort_order" \notin join_result.df.columns

\* C3's case: the merge was made and the returned rows are not in the
\* order the setups table had.
C3_Witness ==
    /\ JoinReturned
    /\ KeyColumnsPresent
    /\ join_result.df.rows # filtered_setups_df.rows
    /\ Len(join_result.df.rows) = Len(filtered_setups_df.rows)

\* A setup row whose key is no summary row's key, while a summary row has
\* the same trader id and a scenario token equal to the row's but for
\* letter case.
CaseOnlyMismatch(row) ==
    /\ \A p \in 1..Len(summary_df.rows) :
          ~(/\ summary_df.rows[p].Scenario = row.scenario
            /\ summary_df.rows[p].TraderID = row.traderid)
    /\ \E p \in 1..Len(summary_df.rows) :
          /\ summary_df.rows[p].Scenario # row.scenario
          /\ Lower(summary_df.rows[p].Scenario) = Lower(row.scenario)
          /\ summary_df.rows[p].TraderID = row.traderid

SomeCaseOnlyMismatch ==
    /\ KeyColumnsPresent
    /\ \E i \in 1..Len(filtered_setups_df.rows) :
          CaseOnlyMismatch(filtered_setups_df.rows[i])

\* C7: join keys are compared exactly: when a setup row's scenario token
\* equals a summary token only up to letter case (same trader id) and no
\* summary row has the row's exact key, the call raises; the row is neither
\* matched nor left out of a returned table.
C7_ExactKeyMatch ==
    (join_result # None /\ SomeCaseOnlyMismatch) => JoinRaised

\* C7's case: the setups hold s_X for a trader, the summary holds s_x for
\* that trader, and the call raised.
C7_Witness ==
    /\ JoinRaised
    /\ \E i \in 1..Len(filtered_setups_df.rows) :
          /\ filtered_setups_df.rows[i].scenario = s_X
          /\ CaseOnlyMismatch(filtered_setups_df.rows[i])
    /\ \A i \in 1..Len(filtered_setups_df.rows) :
          \E p \in 1..Len(summary_df.rows) :
              KeyEqIgnoreCase(filtered_setups_df.rows[i],
                              [scenario |-> summary_df.rows[p].Scenario,
                               traderid |-> summary_df.rows[p].TraderID])

\* C15: a join that returns normally returns as many rows as the setups
\* table it was given has, whatever keys the summary table repeats.
C15_RowCountKept ==
    (join_result # None /\ JoinReturned) =>
        Len(join_result.df.rows) = Len(filtered_setups_df.rows)

----------------------------------------------------------------------------
(* Claims about main (checked under Spec).                                 *)

FinalSummary == TableFile("aggregated_filtered_summary.csv")
FinalSetups == TableFile("filtered-setups.csv")

\* C2: when main has written both final tables and returned, every row of
\* the ranked setups table has the Rank of each summary row with its
\* (scenario, traderid) key.
C2_RankOfSummaryRow ==
    (pc = "done" /\ {FinalSummary, FinalSetups} \subseteq upload_dir) =>
        \A i \in 1..Len(filtered_setups_with_rank_df.rows) :
            \A p \in MatchPositions(filtered_setups_with_rank_df.rows[i], summary_df) :
                filtered_setups_with_rank_df.rows[i].Rank = summary_df.rows[p].Rank

\* The three steps as the code computes them from the run's own state.
SummaryAggregationFails == Raised \in aggregate_filtered_summary_files(output_tree)
SetupAggregationFails == aggregate_filtered_setup_files(output_tree).status = "raised"
JoinFails ==
    /\ filtered_setups_df # None
    /\ summary_df # None
    /\ Raised \in sort_filtered_setups_by_summary(filtered_setups_df, summary_df)

\* C6: upload_file is called only in runs in which summary aggregation,
\* setup aggregation and the join all completed; a run in which one of them
\* raised has ended with no upload call made.
C6_NoUploadAfterFailure ==
    /\ uploaded # {} =>
          /\ ~SummaryAggregationFails
          /\ ~SetupAggregationFails
          /\ ~JoinFails
          /\ join_result.status = "returned"
    /\ error # "none" => (uploaded = {} /\ pc = "aborted")
    /\ (SummaryAggregationFails /\ pc \notin {"make_directories", "aggregate_summary"}) =>
          pc = "aborted"
    /\ SetupAggregationFails =>
          pc \notin {"sort_setups", "rank_setups", "create_setups_file", "upload", "done"}
    /\ (JoinFails /\ pc # "sort_setups") => (pc = "aborted" /\ uploaded = {})

\* C6's case: the join raised after the final summary and the copied files
\* were put in the upload directory, and nothing was uploaded.
C6_Witness ==
    /\ pc = "aborted"
    /\ error = "unmatched_setup_row"
    /\ FinalSummary \in upload_dir
    /\ uploaded = {}

\* C13: a ranked setups table that lacks a required parameter column ends
\* the run: main aborts with no upload call made, and never goes on to the
\* upload with the simplified setups export left out.
C13_MissingParametersFatal ==
    (filtered_setups_with_rank_df # None
        /\ "params" \notin filtered_setups_with_rank_df.columns
        /\ pc # "create_setups_file") =>
            (pc = "aborted" /\ uploaded = {})

DropRank(rows) == [i \in 1..Len(rows) |-> Project(rows[i], (DOMAIN rows[i]) \ {"Rank"})]

\* The summary rows in aggregation order: the frames of the summary files
\* one after the other, before the sort.
AggregationOrder ==
    LET found == SelectSeq(output_tree.dirs, LAMBDA d : d.summary.kind = "csv")
    IN  ConcatFrames([i \in 1..Len(found) |-> SummaryFrame(output_tree, found[i])]).rows

RECURSIVE StableInsert(_, _)
\* r put into s, which descends by score, after every row whose score is
\* not lower.
StableInsert(r, s) ==
    IF s = <<>> THEN <<r>>
    ELSE IF Head(s).CompositeScore[1] < r.CompositeScore[1] THEN <<r>> \o s
    ELSE <<Head(s)>> \o StableInsert(r, Tail(s))

RECURSIVE StableDescending(_, _)
StableDescending(rows, acc) ==
    IF rows = <<>> THEN acc
    ELSE StableDescending(Tail(rows), StableInsert(Head(rows), acc))

\* The rows by score descending, rows of equal score in their order, then
\* the rows without a score in their order.
ScoreOrder(rows) ==
    StableDescending(SelectSeq(rows, LAMBDA r : ~isna(r.CompositeScore)), <<>>)
        \o SelectSeq(rows, LAMBDA r : isna(r.CompositeScore))

\* C14: the ranked summary is the aggregated rows by score descending, rows
\* without a score last and rows of equal score in aggregation order, and
\* Rank counts the rows from 1 in that order.
C14_StableScoreOrder ==
    (summary_df # None /\ "Rank" \in summary_df.columns) =>
        /\ DropRank(summary_df.rows) = ScoreOrder(AggregationOrder)
        /\ \A i \in 1..Len(summary_df.rows) : summary_df.rows[i].Rank = i

\* The header of the aggregated file main has just had written.
AggregatedHeader == summary_df.header
JustAggregated == pc = "reorder_summary"
TraderIdNames == {"TraderID", "traderId", "traderid"}
ScenarioAfter(header, name) ==
    \E k \in 1..(Len(header) - 1) : header[k] = name /\ header[k + 1] = "Scenario"

\* C19 as stated: the Scenario column comes right after the trader-id
\* column under whatever casing the file names it, and first only when
\* there is no trader-id column.
C19_AsStated ==
    JustAggregated =>
        IF \E name \in TraderIdNames : name \in ColumnsOf(AggregatedHeader)
        THEN \E name \in TraderIdNames : ScenarioAfter(AggregatedHeader, name)
        ELSE AggregatedHeader[1] = "Scenario"

\* C19 amended: the Scenario column comes right after the column named
\* TraderID or traderId, and first when the file has neither, a file whose
\* trader-id column is named traderid included.
C19_ScenarioAfterTraderId ==
    JustAggregated =>
        IF \E name \in {"TraderID", "traderId"} : name \in ColumnsOf(AggregatedHeader)
        THEN \E name \in {"TraderID", "traderId"} : ScenarioAfter(AggregatedHeader, name)
        ELSE AggregatedHeader[1] = "Scenario"

\* C19's case: the trader-id column is the file's second, named traderId,
\* and Scenario is the third.
C19_Witness ==
    /\ JustAggregated
    /\ Len(summary_df.rows) > 0
    /\ AggregatedHeader = <<"CompositeScore", "traderId", "Scenario">>

\* No summary file gave a row, or one that has bytes could not be read.
NoRowContributed ==
    \A k \in 1..Len(output_tree.dirs) :
        output_tree.dirs[k].summary.kind = "csv" => output_tree.dirs[k].summary.rows = <<>>
SomeFileUnreadable ==
    \E k \in 1..Len(output_tree.dirs) : output_tree.dirs[k].summary.kind = "garbled"

\* C20: the summary aggregation raises and writes no file when no summary
\* file gave a data row, and when a summary file that has bytes cannot be
\* read.
C20_FailsWithoutRows ==
    (pc \notin {"make_directories", "aggregate_summary"}
        /\ (NoRowContributed \/ SomeFileUnreadable)) =>
        (error = "no_summary_files" /\ summary_df = None)

\* The setup aggregation of the run has been made, and it raised.
SetupsAggregated == filtered_setups_df # None \/ error = "no_setup_files"
SetupAggregationRaised == error = "no_setup_files"
SetupKinds == {output_tree.dirs[k].setups.kind : k \in 1..Len(output_tree.dirs)}

\* C21 as stated: the setup aggregation fails iff no setup file matched or
\* every matched file failed to parse.
C21_AsStated ==
    SetupsAggregated =>
        (SetupAggregationRaised <=> SetupKinds \subseteq {"absent", "empty", "garbled"})

\* C21 amended: the setup aggregation fails iff no setup file matched, or a
\* matched file fails to parse for another reason than being empty, or
\* every matched file is empty; when it does not fail the table has the
\* rows of the files that parse, the empty ones left out.
C21_SetupAggregationFailsIff ==
    SetupsAggregated =>
        /\ SetupAggregationRaised <=>
               (SetupKinds \subseteq {"absent", "empty"} \/ "garbled" \in SetupKinds)
        /\ ~SetupAggregationRaised =>
               Len(filtered_setups_df.rows) =
                   Len(Concat([k \in 1..Len(output_tree.dirs) |->
                                  output_tree.dirs[k].setups.rows]))

\* C21's case: one setup file is empty, another parses, and the aggregation
\* returned the rows of the one that parses.
C21_Witness ==
    /\ filtered_setups_df # None
    /\ SetupKinds = {"empty", "csv"}
    /\ Len(filtered_setups_df.rows) = 1

\* C22: every file the run uploads was written by this run; nothing an
\* earlier run left in the upload directory is uploaded.
C22_UploadsOwnFiles == uploaded \subseteq created

\* C5: the Rank column add_rank_column_to_summary adds to a table of N rows
\* is 1, 2, ..., N in row order, for every N from 0 on; the table keeps its
\* rows, each with its other cells as they were.
C5_RankIsPosition ==
    rank_result # None =>
        /\ rank_result.status = "returned"
        /\ Len(rank_result.df.rows) = Len(summary_df.rows)
        /\ \A i \in 1..Len(summary_df.rows) :
              /\ rank_result.df.rows[i].Rank = i
              /\ Project(rank_result.df.rows[i], summary_df.columns) = summary_df.rows[i]
        /\ {rank_result.df.rows[i].Rank : i \in 1..Len(summary_df.rows)}
              = 1..Len(summary_df.rows)

\* C5's case: a table of two rows or more was ranked.
C5_Witness ==
    /\ rank_result # None
    /\ rank_result.status = "returned"
    /\ Len(rank_result.df.rows) >= 2
    /\ Len(rank_result.df.rows) = Len(summary_df.rows)

----------------------------------------------------------------------------
(* score_calculator.py: the cells of a metrics table.                      *)
(*                                                                         *)
(* A float cell is a record [k, n, d, vn, vd].  k = "num" is the finite    *)
(* number (n / d) / sqrt(vn / vd), so that a z-score, a difference divided *)
(* by a standard deviation, is carried exactly; a plain number has         *)
(* vn = vd = 1.  k = "nan" is NaN, k = "inf" is +inf or -inf by the sign   *)
(* of n, and k = "str" is a cell of text that is not a number.             *)

Rat(n, d) == [k |-> "num", n |-> n, d |-> d, vn |-> 1, vd |-> 1]
Num(v) == Rat(v, 1)
nan == [k |-> "nan", n |-> 0, d |-> 1, vn |-> 1, vd |-> 1]
inf == [k |-> "inf", n |-> 1, d |-> 1, vn |-> 1, vd |-> 1]
neg_inf == [k |-> "inf", n |-> -1, d |-> 1, vn |-> 1, vd |-> 1]
Text == [k |-> "str", n |-> 0, d |-> 1, vn |-> 1, vd |-> 1]

isnull(x) == x.k = "nan"
isinf(x) == x.k = "inf"

\* pd.to_numeric(..., errors='coerce') on one cell
to_numeric(x) == IF x.k = "str" THEN nan ELSE x

\* Series.fillna(value) on one cell
fillna(x, value) == IF isnull(x) THEN value ELSE x

\* A Series or the rows of a DataFrame: the function f on 1..n as a tuple.
Series(f) == SubSeq(f, 1, Len(f))

\* df[column_name] as the sequence of its cells
Column(df, column_name) == Series([i \in 1..Len(df.rows) |-> df.rows[i][column_name]])

\* The rows a skipna reduction takes.
NotNull(col) == {i \in DOMAIN col : ~isnull(col[i])}

RECURSIVE SumOver(_, _)
SumOver(f, S) ==
    IF S = {} THEN 0
    ELSE LET i == CHOOSE j \in S : TRUE IN f[i] + SumOver(f, S \ {i})

\* A mutant of Mean: the first value of the column in place of its mean.
MeanOfFirstRow(col) ==
    LET P == NotNull(col)
    IN  IF P = {} THEN nan
        ELSE LET first == CHOOSE i \in P : \A j \in P : i <= j
             IN  col[first]

\* Series.mean(): NaN cells skipped; NaN when no cell is left.  The cells
\* are whole numbers (d = 1) or infinite.
Mean(col) ==
    LET P == NotNull(col)
    IN  IF P = {} THEN nan
        ELSE IF inf \in {col[i] : i \in P} /\ neg_inf \in {col[i] : i \in P} THEN nan
        ELSE IF inf \in {col[i] : i \in P} THEN inf
        ELSE IF neg_inf \in {col[i] : i \in P} THEN neg_inf
        ELSE Rat(SumOver([i \in P |-> col[i].n], P), Cardinality(P))

\* Series.std(): the sample standard deviation (ddof = 1) of the cells
\* that are not NaN; NaN with fewer than two of them or with an infinite
\* one.  With c cells of sum S it is sqrt(D / (c * c * (c - 1))), where
\* D is the sum of the (c * x - S) ^ 2.
Std(col) ==
    LET P == NotNull(col)
        c == Cardinality(P)
    IN  IF c <= 1 THEN nan
        ELSE IF \E i \in P : isinf(col[i]) THEN nan
        ELSE LET S == SumOver([i \in P |-> col[i].n], P)
                 D == SumOver([i \in P |-> (c * col[i].n - S) * (c * col[i].n - S)], P)
             IN  IF D = 0 THEN Num(0)
                 ELSE [k |-> "num", n |-> 1, d |-> 1, vn |-> c * c * (c - 1), vd |-> D]

\* (x - mean) / std_dev on one cell, as numpy divides: NaN in, NaN out;
\* 0 / 0 is NaN and a nonzero number over 0 is infinite.
ZValue(x, mean, std_dev) ==
    IF isnull(x) \/ isnull(mean) \/ isnull(std_dev) THEN nan
    ELSE IF isinf(x) /\ isinf(mean) THEN (IF x = mean THEN nan ELSE x)
    ELSE IF isinf(x) THEN x
    ELSE IF isinf(mean) THEN (IF mean = inf THEN neg_inf ELSE inf)
    ELSE LET num == x.n * mean.d - mean.n * x.d
             den == x.d * mean.d
         IN  IF std_dev = Num(0)
             THEN (IF num = 0 THEN nan ELSE IF num > 0 THEN inf ELSE neg_inf)
             ELSE IF num = 0 THEN Num(0)
             ELSE [k |-> "num", n |-> num, d |-> den,
                   vn |-> std_dev.vd, vd |-> std_dev.vn]

\* A mutant of calculate_z_scores: the guard tests only std_dev == 0.
calculate_z_scores_zero_std_only(df, column_name) ==
    IF column_name \notin df.columns
    THEN [i \in 1..Len(df.rows) |-> nan]
    ELSE LET col == Column(df, column_name)
             numeric_col == Series([i \in 1..Len(col) |-> to_numeric(col[i])])
             mean == Mean(numeric_col)
             std_dev == Std(numeric_col)
         IN  IF std_dev = Num(0)
             THEN [i \in 1..Len(col) |-> Num(0)]
             ELSE Series([i \in 1..Len(col) |-> ZValue(numeric_col[i], mean, std_dev)])

\* calculate_z_scores(df, column_name): the Series it returns, by position.
calculate_z_scores(df, column_name) ==
    IF column_name \notin df.columns
    THEN [i \in 1..Len(df.rows) |-> nan]
    ELSE LET col == Column(df, column_name)
             numeric_col == Series([i \in 1..Len(col) |-> to_numeric(col[i])])
             mean == Mean(numeric_col)
             std_dev == Std(numeric_col)
         IN  IF std_dev = Num(0) \/ isnull(std_dev) \/ isnull(mean)
             THEN [i \in 1..Len(col) |-> Num(0)]
             ELSE Series([i \in 1..Len(col) |-> ZValue(numeric_col[i], mean, std_dev)])

----------------------------------------------------------------------------
(* score_calculator.py: calculate_zscore_composite_score                   *)

\* A mutant of metrics_to_standardize: the duration weighs in with a plus.
metrics_to_standardize_all_positive ==
    << [col |-> "sortino_ratio",         weight |-> 30],
       [col |-> "recovery_factor",       weight |-> 25],
       [col |-> "profit_factor",         weight |-> 20],
       [col |-> "max_drawdown_duration", weight |-> 15],
       [col |-> "log_tradecount",        weight |-> 10] >>

\* The metrics in the order the code adds them, with their weights in
\* hundredths (0.30, 0.25, 0.20, -0.15, 0.10).
metrics_to_standardize ==
    << [col |-> "sortino_ratio",         weight |-> 30],
       [col |-> "recovery_factor",       weight |-> 25],
       [col |-> "profit_factor",         weight |-> 20],
       [col |-> "max_drawdown_duration", weight |-> -15],
       [col |-> "log_tradecount",        weight |-> 10] >>

required_base_columns ==
    {"sortino_ratio", "recovery_factor", "profit_factor", "max_drawdown_duration",
     "tradecount"}

\* A ratio cell of df_calc: to_numeric, then inf and -inf replaced by NaN,
\* then NaN filled with 0.
RatioCell(x) ==
    LET v == to_numeric(x)
        w == IF isinf(v) THEN nan ELSE v
    IN  fillna(w, Num(0))

\* A tradecount cell of df_calc: to_numeric, fillna(0), clip(lower=0).
TradecountCell(x) ==
    LET v == fillna(to_numeric(x), Num(0))
    IN  IF v = neg_inf THEN Num(0)
        ELSE IF v = inf THEN inf
        ELSE IF v.n < 0 THEN Num(0)
        ELSE v

\* np.log(tradecount + 1), in units of ln 10: the tradecounts of the model
\* are 0, 9 and 99, whose logarithms are 0, 1 and 2 times ln 10.  A z-score
\* does not depend on the unit.
Log1p(tradecount) ==
    IF tradecount = inf THEN inf
    ELSE CASE tradecount.n = 0  -> Num(0)
           [] tradecount.n = 9  -> Num(1)
           [] tradecount.n = 99 -> Num(2)

\* df_calc after step 3
PrepareRow(row) ==
    [sortino_ratio         |-> RatioCell(row.sortino_ratio),
     recovery_factor       |-> RatioCell(row.recovery_factor),
     profit_factor         |-> RatioCell(row.profit_factor),
     max_drawdown_duration |-> to_numeric(row.max_drawdown_duration),
     tradecount            |-> TradecountCell(row.tradecount),
     log_tradecount        |-> Log1p(TradecountCell(row.tradecount))]

df_calc(df) ==
    [columns |-> required_base_columns \cup {"log_tradecount"},
     rows    |-> Series([i \in 1..Len(df.rows) |-> PrepareRow(df.rows[i])])]

\* A mutant of ZScoresFrame: the z-scores as calculate_z_scores gives
\* them, NaN left in.
ZScoresFrameUnfilled(df) ==
    LET calc == df_calc(df)
    IN  Series([m \in 1..Len(metrics_to_standardize) |->
            calculate_z_scores(calc, metrics_to_standardize[m].col)])

\* z_scores[f'z_{col}'] for each metric, NaN filled with 0
ZScoresFrame(df) ==
    LET calc == df_calc(df)
    IN  Series([m \in 1..Len(metrics_to_standardize) |->
            LET z == calculate_z_scores(calc, metrics_to_standardize[m].col)
            IN  Series([i \in 1..Len(df.rows) |-> fillna(z[i], Num(0))])])

\* A row's CompositeScore: 0.0 plus z * weight for each metric in turn.  The
\* sum of the five products is carried as its terms; two sums with the same
\* terms are the same number.
CompositeScoreOf(z_frame, i) ==
    Series([m \in 1..Len(metrics_to_standardize) |->
        [z |-> z_frame[m][i], weight |-> metrics_to_standardize[m].weight]])

\* required_base_columns as the list the code walks.
RequiredColumnsInOrder ==
    <<"sortino_ratio", "recovery_factor", "profit_factor", "max_drawdown_duration",
      "tradecount">>

\* A mutant of MissingCols: the walk stops at the first absent column.
MissingColsFirstOnly(df) ==
    LET all == SelectSeq(RequiredColumnsInOrder, LAMBDA col : col \notin df.columns)
    IN  IF all = <<>> THEN <<>> ELSE <<Head(all)>>

\* missing_cols: the required columns that are not in df.columns.
MissingCols(df) ==
    SelectSeq(RequiredColumnsInOrder, LAMBDA col : col \notin df.columns)

\* calculate_zscore_composite_score(df): raises ValueError with missing_cols in
\* its message when a required column is missing, else returns df with the
\* CompositeScore column set.
calculate_zscore_composite_score(df) ==
    IF MissingCols(df) # <<>>
    THEN [status |-> "raised", df |-> None, missing_cols |-> MissingCols(df)]
    ELSE LET z_frame == ZScoresFrame(df)
         IN  [status |-> "returned",
              df |-> [columns |-> df.columns \cup {"CompositeScore"},
                      rows    |-> Series([i \in 1..Len(df.rows) |->
                                      [c \in (DOMAIN df.rows[i]) \cup {"CompositeScore"} |->
                                          IF c = "CompositeScore"
                                          THEN CompositeScoreOf(z_frame, i)
                                          ELSE df.rows[i][c]]])]]

----------------------------------------------------------------------------
(* The scorer on its own: any metrics table of up to MaxScoreRows rows.    *)

MetricRows ==
    [sortino_ratio         : {Num(1), inf},
     recovery_factor       : {Num(2)},
     profit_factor         : {Num(1), Text},
     max_drawdown_duration : {Num(1), Num(4), nan},
     tradecount            : {Num(0), Num(9)}]

MetricTables ==
    {[columns |-> required_base_columns, rows |-> r] :
        r \in SeqUpTo(MetricRows, MaxScoreRows)}

InitScore ==
    /\ score_df \in MetricTables
    /\ z_scores = None
    /\ scored_df = None
    /\ filter_df = None /\ filter_args = None /\ df_filtered = None
    /\ NoJoinCall
    /\ NoScenarioCall
    /\ NoRun

CallZScores ==
    /\ score_df # None
    /\ z_scores = None
    /\ scored_df = None
    /\ \E column_name \in required_base_columns :
          z_scores' = [column_name |-> column_name,
                       values      |-> calculate_z_scores(score_df, column_name)]
    /\ UNCHANGED <<score_df, scored_df, filter_df, filter_args, df_filtered,
                   joinVars, scenarioVars, mainVars>>

\* The call sets the CompositeScore column of the table it is given and
\* returns that table.
CallCompositeScore ==
    /\ score_df # None
    /\ z_scores = None
    /\ scored_df = None
    /\ LET r == calculate_zscore_composite_score(score_df)
       IN  /\ scored_df' = r
           /\ score_df' = IF r.status = "returned" THEN r.df ELSE score_df
    /\ UNCHANGED <<z_scores, filter_df, filter_args, df_filtered,
                   joinVars, scenarioVars, mainVars>>

NextScore == CallZScores \/ CallCompositeScore

SpecScore == InitScore /\ [][NextScore]_vars

----------------------------------------------------------------------------
(* The scorer on tables chosen for the composite score: tradecounts that   *)
(* are missing or below 0, and tables that lack required columns.          *)

CompositeRows ==
    [sortino_ratio         : {Num(1), inf},
     recovery_factor       : {Num(2)},
     profit_factor         : {Num(1), Text},
     max_drawdown_duration : {Num(1), Num(4), nan},
     tradecount            : {nan, Num(-1), Num(9)}]

\* A row of a table that lacks some of the required columns.
PartialRow(columns) == [c \in columns |-> Num(1)]

PartialTables ==
    {[columns |-> columns, rows |-> [i \in 1..n |-> PartialRow(columns)]] :
        columns \in (SUBSET required_base_columns) \ {required_base_columns},
        n \in 0..MaxScoreRows}

CompositeTables ==
    {[columns |-> required_base_columns, rows |-> r] :
        r \in SeqUpTo(CompositeRows, MaxScoreRows)} \cup PartialTables

InitComposite ==
    /\ score_df \in CompositeTables
    /\ z_scores = None
    /\ scored_df = None
    /\ filter_df = None /\ filter_args = None /\ df_filtered = None
    /\ NoJoinCall
    /\ NoScenarioCall
    /\ NoRun

SpecComposite == InitComposite /\ [][NextScore]_vars

----------------------------------------------------------------------------
(* The scorer on tables one row longer, with cells that are missing, not   *)
(* numbers or infinite: a column can then hold a missing cell next to two  *)
(* numbers that differ.                                                    *)

\* A row of numbers, the same with another duration, and the same with
\* one cell, of any required column, missing, infinite or text.
DegenerateRows ==
    LET row == [sortino_ratio |-> Num(1), recovery_factor |-> Num(2),
                profit_factor |-> Num(1), max_drawdown_duration |-> Num(1),
                tradecount |-> Num(9)]
    IN  {row, [row EXCEPT !.max_drawdown_duration = Num(4)]} \cup
        {[row EXCEPT ![c] = v] : c \in required_base_columns, v \in {nan, inf, Text}}

InitDegenerate ==
    /\ score_df \in {[columns |-> required_base_columns, rows |-> r] :
                        r \in [1..(MaxScoreRows + 1) -> DegenerateRows]}
    /\ z_scores = None
    /\ scored_df = None
    /\ filter_df = None /\ filter_args = None /\ df_filtered = None
    /\ NoJoinCall
    /\ NoScenarioCall
    /\ NoRun

SpecDegenerate == InitDegenerate /\ [][NextScore]_vars

----------------------------------------------------------------------------
(* Claims about the scorer (checked under SpecScore and SpecComposite).    *)

\* The cells of the column calculate_z_scores was called on, text read as
\* missing.
ZColumn ==
    LET col == Column(score_df, z_scores.column_name)
    IN  Series([i \in 1..Len(col) |-> to_numeric(col[i])])

\* A column has no usable spread when at most one cell is present, when a
\* present cell is infinite, or when all present cells are equal: its
\* standard deviation is undefined, undefined, or 0; with no cell present
\* its mean is undefined too.
NoSpread(col) ==
    \/ Cardinality(NotNull(col)) <= 1
    \/ \E i \in NotNull(col) : isinf(col[i])
    \/ \A i, j \in NotNull(col) : col[i] = col[j]

PermuteRows(df, p) ==
    [df EXCEPT !.rows = Series([i \in 1..Len(df.rows) |-> df.rows[p[i]]])]

\* The table the scorer was given: the scored table without its score.
ScorerInput ==
    [columns |-> scored_df.df.columns \ {"CompositeScore"},
     rows    |-> Series([i \in 1..Len(scored_df.df.rows) |->
                     Project(scored_df.df.rows[i],
                             scored_df.df.columns \ {"CompositeScore"})])]

----------------------------------------------------------------------------
(* score_calculator.py: filter_strategies                                  *)

Sign(a) == IF a.n > 0 THEN 1 ELSE IF a.n < 0 THEN -1 ELSE 0

\* a < b on floats: false when either is NaN.
Less(a, b) ==
    IF isnull(a) \/ isnull(b) THEN FALSE
    ELSE IF isinf(a) THEN a = neg_inf /\ b # neg_inf
    ELSE IF isinf(b) THEN b = inf
    ELSE a.n * b.d < b.n * a.d

Greater(a, b) == Less(b, a)
GreaterEq(a, b) == ~isnull(a) /\ ~isnull(b) /\ ~Less(a, b)

\* a * b on floats: an infinity times 0 is NaN.
Times(a, b) ==
    IF isnull(a) \/ isnull(b) THEN nan
    ELSE IF isinf(a) \/ isinf(b)
         THEN (IF Sign(a) * Sign(b) = 0 THEN nan
               ELSE IF Sign(a) * Sign(b) > 0 THEN inf ELSE neg_inf)
    ELSE Rat(a.n * b.n, a.d * b.d)

\* The k-th smallest (from 1) of the finite cells col[i], i in P.
KthSmallest(col, P, k) ==
    LET i == CHOOSE j \in P :
                 /\ Cardinality({m \in P : Less(col[m], col[j])}) < k
                 /\ Cardinality({m \in P : ~Less(col[j], col[m])}) >= k
    IN  col[i]

\* Series.quantile(q), linear interpolation over the cells that are not
\* NaN (finite in the model): at position (c - 1) * q of the sorted cells.
Quantile(col, q) ==
    LET P    == NotNull(col)
        c    == Cardinality(P)
        pos  == (c - 1) * q.n
        lo   == pos \div q.d
        r    == pos % q.d
        a    == KthSmallest(col, P, lo + 1)
        b    == KthSmallest(col, P, IF r = 0 THEN lo + 1 ELSE lo + 2)
    IN  IF P = {} THEN nan
        ELSE Rat(a.n * (q.d - r) * b.d + b.n * r * a.d, a.d * b.d * q.d)

\* A mutant of QuantileStep: the rows above the quantile are kept, those
\* at it are not.
QuantileStepStrict(df, composite_quantile_threshold) ==
    IF composite_quantile_threshold = None
       \/ ~Greater(composite_quantile_threshold, Num(0))
       \/ "CompositeScore" \notin df.columns
       \/ Greater(composite_quantile_threshold, Num(1))
       \/ \A i \in 1..Len(df.rows) : isnull(to_numeric(df.rows[i].CompositeScore))
    THEN df
    ELSE LET col == Series([i \in 1..Len(df.rows) |-> to_numeric(df.rows[i].CompositeScore)])
             score_threshold == Quantile(col, composite_quantile_threshold)
         IN  [df EXCEPT !.rows = SelectSeq(df.rows,
                 LAMBDA row : Greater(to_numeric(row.CompositeScore), score_threshold))]

\* The quantile step.  It runs when the threshold is given and positive and
\* the CompositeScore column is there and holds a number; it leaves the
\* column converted by to_numeric.  A threshold above 1 makes quantile()
\* raise, which the step catches.
QuantileStep(df, composite_quantile_threshold) ==
    IF composite_quantile_threshold = None
       \/ ~Greater(composite_quantile_threshold, Num(0))
    THEN df
    ELSE IF "CompositeScore" \notin df.columns
            \/ \A i \in 1..Len(df.rows) : isnull(df.rows[i].CompositeScore)
    THEN df
    ELSE LET coerced == [df EXCEPT !.rows = [i \in 1..Len(df.rows) |->
                            [df.rows[i] EXCEPT !.CompositeScore = to_numeric(@)]]]
             col == Column(coerced, "CompositeScore")
         IN  IF \A i \in 1..Len(col) : isnull(col[i]) THEN coerced
             ELSE IF Greater(composite_quantile_threshold, Num(1)) THEN coerced
             ELSE LET score_threshold == Quantile(col, composite_quantile_threshold)
                  IN  IF isnull(score_threshold) THEN coerced
                      ELSE [coerced EXCEPT !.rows = SelectSeq(coerced.rows,
                              LAMBDA row : GreaterEq(row.CompositeScore, score_threshold))]

\* A mutant of PfNumeric: the missing profit factors are not filled.
PfNumericUnfilled(x) == to_numeric(x)

\* pf_numeric on one cell: to_numeric(...).fillna(0)
PfNumeric(x) == fillna(to_numeric(x), Num(0))

\* A mutant of ProfitFactorStep: pf_numeric > min_profit_factor.
ProfitFactorStepStrict(df, min_profit_factor) ==
    IF "profit_factor" \notin df.columns THEN df
    ELSE [df EXCEPT !.rows = SelectSeq(df.rows,
            LAMBDA row : Greater(PfNumeric(row.profit_factor), min_profit_factor))]

\* The profit-factor step: keeps the rows with pf_numeric >= min_profit_factor.
ProfitFactorStep(df, min_profit_factor) ==
    IF "profit_factor" \notin df.columns THEN df
    ELSE [df EXCEPT !.rows = SelectSeq(df.rows,
            LAMBDA row : GreaterEq(PfNumeric(row.profit_factor), min_profit_factor))]

\* A mutant of RemovedByDrawdown: the mask without total_profit_numeric > 0.
RemovedByDrawdownAnyProfit(row, max_drawdown_ratio) ==
    LET max_dd_numeric == to_numeric(row.max_drawdown)
        total_profit_numeric == to_numeric(row.totalprofit)
    IN  /\ ~isnull(max_dd_numeric)
        /\ ~isnull(total_profit_numeric)
        /\ Greater(max_dd_numeric, Times(max_drawdown_ratio, total_profit_numeric))

\* rows_to_remove_mask on one row
RemovedByDrawdown(row, max_drawdown_ratio) ==
    LET max_dd_numeric == to_numeric(row.max_drawdown)
        total_profit_numeric == to_numeric(row.totalprofit)
        valid_comparison == /\ Greater(total_profit_numeric, Num(0))
                            /\ ~isnull(max_dd_numeric)
                            /\ ~isnull(total_profit_numeric)
        exceeds_ratio == Greater(max_dd_numeric,
                                 Times(max_drawdown_ratio, total_profit_numeric))
    IN  valid_comparison /\ exceeds_ratio

\* A mutant of DrawdownStep: the rows it keeps come out last first.
DrawdownStepLastFirst(df, max_drawdown_ratio) ==
    IF ~({"max_drawdown", "totalprofit"} \subseteq df.columns) THEN df
    ELSE [df EXCEPT !.rows = Series(Reverse(SelectSeq(df.rows,
            LAMBDA row : ~RemovedByDrawdown(row, max_drawdown_ratio))))]

\* The drawdown step
DrawdownStep(df, max_drawdown_ratio) ==
    IF ~({"max_drawdown", "totalprofit"} \subseteq df.columns) THEN df
    ELSE [df EXCEPT !.rows = SelectSeq(df.rows,
            LAMBDA row : ~RemovedByDrawdown(row, max_drawdown_ratio))]

\* A mutant of filter_strategies: the profit-factor step comes first, so the
\* quantile is taken over the rows it kept.
filter_strategies_profit_factor_first(df, composite_quantile_threshold, min_profit_factor, max_drawdown_ratio) ==
    IF Len(df.rows) = 0 THEN df
    ELSE DrawdownStep(
             QuantileStep(
                 ProfitFactorStep(df, min_profit_factor),
                 composite_quantile_threshold),
             max_drawdown_ratio)

\* filter_strategies(df, composite_quantile_threshold, min_profit_factor,
\*                   max_drawdown_ratio): the table it returns.
filter_strategies(df, composite_quantile_threshold, min_profit_factor, max_drawdown_ratio) ==
    IF Len(df.rows) = 0 THEN df
    ELSE DrawdownStep(
             ProfitFactorStep(
                 QuantileStep(df, composite_quantile_threshold),
                 min_profit_factor),
             max_drawdown_ratio)

----------------------------------------------------------------------------
(* The filter on its own: any scored table of up to MaxFilterRows rows and *)
(* any thresholds.                                                         *)

ScoredRows ==
    [CompositeScore : {Num(1), Num(2), nan},
     profit_factor  : {Num(2), Text},
     totalprofit    : {Num(100), Num(-10)},
     max_drawdown   : {Num(60), nan}]

\* Tables that have only the columns of one step, with more kinds of cell.
DrawdownRows ==
    [totalprofit  : {Num(100), Num(-10), Num(0), nan, Text},
     max_drawdown : {Num(60), Num(40), nan, Text}]

ProfitFactorRows == [profit_factor : {Num(2), Num(1), Num(0), Num(-1), nan, Text}]

ScoredTables ==
    {[columns |-> {"CompositeScore", "profit_factor", "totalprofit", "max_drawdown"},
      rows    |-> r] : r \in SeqUpTo(ScoredRows, MaxFilterRows)}
    \cup {[columns |-> {"totalprofit", "max_drawdown"}, rows |-> r] :
              r \in SeqUpTo(DrawdownRows, MaxFilterRows) \ {<<>>}}
    \cup {[columns |-> {"profit_factor"}, rows |-> r] :
              r \in SeqUpTo(ProfitFactorRows, MaxFilterRows) \ {<<>>}}

\* The defaults are 0.90, 1.2 and 0.5.
FilterArgs ==
    [composite_quantile_threshold : {None, Num(0), Rat(1, 2), Rat(9, 10)},
     min_profit_factor            : {neg_inf, Num(0), Rat(6, 5)},
     max_drawdown_ratio           : {neg_inf, inf, Rat(1, 2)}]

InitFilter ==
    /\ filter_df \in ScoredTables
    /\ filter_args \in FilterArgs
    /\ df_filtered = None
    /\ score_df = None /\ z_scores = None /\ scored_df = None
    /\ NoJoinCall
    /\ NoScenarioCall
    /\ NoRun

CallFilter ==
    /\ filter_df # None
    /\ df_filtered = None
    /\ df_filtered' = filter_strategies(filter_df,
                                        filter_args.composite_quantile_threshold,
                                        filter_args.min_profit_factor,
                                        filter_args.max_drawdown_ratio)
    /\ UNCHANGED <<filter_df, filter_args, score_df, z_scores, scored_df,
                   joinVars, scenarioVars, mainVars>>

NextFilter == CallFilter

SpecFilter == InitFilter /\ [][NextFilter]_vars

----------------------------------------------------------------------------
(* The filter on tables chosen for the quantile step: scores that are text *)
(* as well as missing, and thresholds up to 1 and above it.                *)

InitQuantile ==
    /\ filter_df \in
          {[columns |-> {"CompositeScore", "profit_factor", "totalprofit", "max_drawdown"},
            rows    |-> r] :
              r \in SeqUpTo([CompositeScore : {Num(1), Num(2), nan, Text},
                             profit_factor  : {Num(2), Num(1)},
                             totalprofit    : {Num(100)},
                             max_drawdown   : {Num(60), Num(10)}],
                            MaxFilterRows)}
    /\ filter_args \in
          [composite_quantile_threshold : {None, Rat(1, 4), Rat(1, 2), Num(1), Num(2)},
           min_profit_factor            : {Rat(6, 5)},
           max_drawdown_ratio           : {Rat(1, 2)}]
    /\ df_filtered = None
    /\ score_df = None /\ z_scores = None /\ scored_df = None
    /\ NoJoinCall
    /\ NoScenarioCall
    /\ NoRun

SpecQuantile == InitQuantile /\ [][NextFilter]_vars

\* The prepared cells of a row as the formula of the score words them: a
\* ratio that is infinite, missing or not a number is 0; the duration is
\* the number read; a missing tradecount is 0, one below 0 is 0, and the
\* count goes in as ln(count + 1).
Finite(x) == IF x.k = "num" THEN x ELSE Num(0)
CountOrZero(x) ==
    IF x.k \in {"nan", "str"} THEN Num(0)
    ELSE IF x.k = "num" /\ x.n < 0 THEN Num(0)
    ELSE IF x = neg_inf THEN Num(0)
    ELSE x
PreparedTable(df) ==
    [columns |-> {"sortino_ratio", "recovery_factor", "profit_factor",
                  "max_drawdown_duration", "log_tradecount"},
     rows    |-> Series([i \in 1..Len(df.rows) |->
                    [sortino_ratio         |-> Finite(df.rows[i].sortino_ratio),
                     recovery_factor       |-> Finite(df.rows[i].recovery_factor),
                     profit_factor         |-> Finite(df.rows[i].profit_factor),
                     max_drawdown_duration |->
                         IF df.rows[i].max_drawdown_duration.k = "str" THEN nan
                         ELSE df.rows[i].max_drawdown_duration,
                     log_tradecount        |-> Log1p(CountOrZero(df.rows[i].tradecount))]])]

\* z(metric) of every row, a missing z-score counted as 0.
Z(df, metric) ==
    LET z == calculate_z_scores(PreparedTable(df), metric)
    IN  Series([i \in 1..Len(df.rows) |-> IF isnull(z[i]) THEN Num(0) ELSE z[i]])

\* weight * z of one term against another of the same metric, whose
\* z-scores are deviations from one mean over one standard deviation.
TermLessEq(a, b) == a.weight * a.z.n * b.z.d <= b.weight * b.z.n * a.z.d
ZLess(a, b) == a.z.n * b.z.d < b.z.n * a.z.d

\* C16: CompositeScore is 0.30 z(sortino_ratio) + 0.25 z(recovery_factor)
\* + 0.20 z(profit_factor) - 0.15 z(max_drawdown_duration)
\* + 0.10 z(log_tradecount) on the prepared cells, a missing z-score counted
\* as 0; of two rows whose other four terms are the same, the one with the
\* lower duration z-score does not have the lower score.
C16_WeightedSum ==
    (scored_df # None /\ scored_df.status = "returned") =>
        LET rows == scored_df.df.rows
        IN  /\ \A i \in 1..Len(rows) :
                  rows[i].CompositeScore =
                      << [z |-> Z(ScorerInput, "sortino_ratio")[i],         weight |-> 30],
                         [z |-> Z(ScorerInput, "recovery_factor")[i],       weight |-> 25],
                         [z |-> Z(ScorerInput, "profit_factor")[i],         weight |-> 20],
                         [z |-> Z(ScorerInput, "max_drawdown_duration")[i], weight |-> -15],
                         [z |-> Z(ScorerInput, "log_tradecount")[i],        weight |-> 10] >>
            /\ \A i, j \in 1..Len(rows) :
                  (/\ \A m \in {1, 2, 3, 5} :
                         rows[i].CompositeScore[m] = rows[j].CompositeScore[m]
                   /\ ZLess(rows[i].CompositeScore[4], rows[j].CompositeScore[4])) =>
                      TermLessEq(rows[j].CompositeScore[4], rows[i].CompositeScore[4])

\* C16's case: two scored rows that differ in the duration z-score only,
\* in a table with an infinite ratio or a ratio that is not a number.
C16_Witness ==
    /\ scored_df # None
    /\ scored_df.status = "returned"
    /\ \E i, j \in 1..Len(scored_df.df.rows) :
          /\ \A m \in {1, 2, 3, 5} :
                scored_df.df.rows[i].CompositeScore[m] = scored_df.df.rows[j].CompositeScore[m]
          /\ ZLess(scored_df.df.rows[i].CompositeScore[4], scored_df.df.rows[j].CompositeScore[4])
    /\ \E i \in 1..Len(scored_df.df.rows) :
          scored_df.df.rows[i].sortino_ratio = inf \/ scored_df.df.rows[i].profit_factor = Text

\* C12: when any of the five required columns is absent the scorer raises an
\* error that names every absent column and no other, and the table it was
\* given stays as it was, without a CompositeScore column.
C12_MissingColumnsRaise ==
    [][(scored_df = None /\ scored_df' # None
            /\ ~(required_base_columns \subseteq score_df.columns)) =>
        /\ scored_df'.status = "raised"
        /\ {scored_df'.missing_cols[i] : i \in 1..Len(scored_df'.missing_cols)}
               = required_base_columns \ score_df.columns
        /\ score_df' = score_df
        /\ "CompositeScore" \notin score_df'.columns]_vars

\* C12's case: the scorer raised on a table that has rows and lacks two of
\* the required columns or more.
C12_Witness ==
    /\ scored_df # None
    /\ scored_df.status = "raised"
    /\ Len(scored_df.missing_cols) >= 2
    /\ score_df.rows # <<>>
    /\ "CompositeScore" \notin score_df.columns

----------------------------------------------------------------------------
(* Claims about the filter (checked under SpecFilter).                     *)

QuantileOff == filter_args.composite_quantile_threshold = Num(0)

\* A row the drawdown test applies to: positive total profit and a numeric
\* max_drawdown.
DrawdownComparable(row) ==
    /\ {"totalprofit", "max_drawdown"} \subseteq DOMAIN row
    /\ Greater(to_numeric(row.totalprofit), Num(0))
    /\ ~isnull(to_numeric(row.max_drawdown))

\* C10 as stated: with the quantile threshold 0 and both other thresholds
\* minus infinity, filter_strategies returns exactly the rows it was given.
C10_AsStated ==
    (/\ df_filtered # None
     /\ QuantileOff
     /\ filter_args.min_profit_factor = neg_inf
     /\ filter_args.max_drawdown_ratio = neg_inf) =>
        df_filtered = filter_df

\* C10: with the quantile threshold 0, min_profit_factor minus infinity and
\* max_drawdown_ratio plus infinity, filter_strategies returns exactly the
\* rows it was given; with max_drawdown_ratio minus infinity instead, it
\* removes the rows with totalprofit > 0 and a max_drawdown above minus
\* infinity and returns the others.
C10_NothingRemoved ==
    (/\ df_filtered # None
     /\ QuantileOff
     /\ filter_args.min_profit_factor = neg_inf) =>
        /\ filter_args.max_drawdown_ratio = inf => df_filtered = filter_df
        /\ filter_args.max_drawdown_ratio = neg_inf =>
              df_filtered = [filter_df EXCEPT !.rows = SelectSeq(filter_df.rows,
                                LAMBDA row : ~(/\ DrawdownComparable(row)
                                               /\ Greater(to_numeric(row.max_drawdown),
                                                          neg_inf)))]

\* C10's case: a table with a row of positive total profit and numeric
\* drawdown, and a row whose profit factor is not a number, came back whole.
C10_Witness ==
    /\ df_filtered # None
    /\ QuantileOff
    /\ filter_args.min_profit_factor = neg_inf
    /\ filter_args.max_drawdown_ratio = inf
    /\ \E i \in 1..Len(filter_df.rows) : DrawdownComparable(filter_df.rows[i])
    /\ "profit_factor" \in filter_df.columns
    /\ \E i \in 1..Len(filter_df.rows) : filter_df.rows[i].profit_factor = Text
    /\ df_filtered = filter_df

\* The table the drawdown step of the call was given: what the quantile
\* and profit-factor steps kept.
BeforeDrawdown ==
    ProfitFactorStep(QuantileStep(filter_df, filter_args.composite_quantile_threshold),
                     filter_args.min_profit_factor)

IsNumber(x) == x.k \in {"num", "inf"}

\* max_drawdown > ratio * totalprofit for whole-number cells and a positive
\* totalprofit, by the kind of ratio.
DrawdownAbove(max_drawdown, ratio, totalprofit) ==
    IF ratio = inf THEN FALSE
    ELSE IF ratio = neg_inf THEN TRUE
    ELSE max_drawdown.n * ratio.d > ratio.n * totalprofit.n

\* C11: the drawdown step removes a row if and only if its totalprofit is a
\* number above 0, its max_drawdown is a number, and max_drawdown is above
\* max_drawdown_ratio * totalprofit; every other row it was given is in the
\* output, in its place.
C11_DrawdownRemovesIff ==
    (/\ df_filtered # None
     /\ {"totalprofit", "max_drawdown"} \subseteq filter_df.columns
     /\ filter_df.rows # <<>>) =>
        df_filtered.rows = SelectSeq(BeforeDrawdown.rows,
            LAMBDA row : ~(/\ IsNumber(row.totalprofit)
                           /\ row.totalprofit.n > 0
                           /\ IsNumber(row.max_drawdown)
                           /\ DrawdownAbove(row.max_drawdown,
                                            filter_args.max_drawdown_ratio,
                                            row.totalprofit)))

\* C11's case: with ratio 0.5 the row totalprofit=100, max_drawdown=60 was
\* removed and the row totalprofit=-10, max_drawdown=60 was kept.
C11_Witness ==
    /\ df_filtered # None
    /\ filter_args.max_drawdown_ratio = Rat(1, 2)
    /\ filter_df.columns = {"totalprofit", "max_drawdown"}
    /\ filter_df.rows = << [totalprofit |-> Num(100), max_drawdown |-> Num(60)],
                           [totalprofit |-> Num(-10), max_drawdown |-> Num(60)] >>
    /\ df_filtered.rows = << [totalprofit |-> Num(-10), max_drawdown |-> Num(60)] >>

\* The quantile step is on: a threshold above 0 and a score to rank.
QuantileOn ==
    /\ filter_args.composite_quantile_threshold # None
    /\ Greater(filter_args.composite_quantile_threshold, Num(0))
    /\ \E i \in 1..Len(filter_df.rows) : ~isnull(filter_df.rows[i].CompositeScore)

\* The quantile of CompositeScore over every row of the input table.
InputThreshold ==
    Quantile(Column(filter_df, "CompositeScore"), filter_args.composite_quantile_threshold)

\* C17: the steps run in the order quantile, profit factor, drawdown, each
\* on the rows the one before kept; the quantile step keeps the rows whose
\* score is at or above the quantile of CompositeScore over the whole input
\* table, and with a threshold of 0 or None it keeps every row.
C17_StepsInOrder ==
    (df_filtered # None /\ "CompositeScore" \in filter_df.columns) =>
        /\ df_filtered.rows =
              SelectSeq(filter_df.rows, LAMBDA row :
                  /\ QuantileOn => GreaterEq(row.CompositeScore, InputThreshold)
                  /\ GreaterEq(PfNumeric(row.profit_factor), filter_args.min_profit_factor)
                  /\ ~RemovedByDrawdown(row, filter_args.max_drawdown_ratio))
        /\ filter_args.composite_quantile_threshold \in {None, Num(0)} =>
              df_filtered.rows =
                  DrawdownStep(ProfitFactorStep(filter_df, filter_args.min_profit_factor),
                               filter_args.max_drawdown_ratio).rows

\* C17's case: a row at or above the quantile of the whole table is removed
\* by the profit-factor step, and the row below the quantile stays out
\* although it is the best of the rows that step would keep.
C17_Witness ==
    /\ df_filtered # None
    /\ "CompositeScore" \in filter_df.columns
    /\ QuantileOn
    /\ df_filtered.rows = <<>>
    /\ \E i, j \in 1..Len(filter_df.rows) :
          /\ GreaterEq(filter_df.rows[i].CompositeScore, InputThreshold)
          /\ ~GreaterEq(PfNumeric(filter_df.rows[i].profit_factor), filter_args.min_profit_factor)
          /\ Less(filter_df.rows[j].CompositeScore, InputThreshold)
          /\ GreaterEq(PfNumeric(filter_df.rows[j].profit_factor), filter_args.min_profit_factor)
          /\ ~RemovedByDrawdown(filter_df.rows[j], filter_args.max_drawdown_ratio)

\* A profit factor read as a number, 0 when it is missing or not a number.
ProfitFactorOrZero(x) == IF x.k \in {"nan", "str"} THEN Num(0) ELSE x
NoProfitFactor(row) == row.profit_factor.k \in {"nan", "str"}

\* The rows the profit-factor step is given, and the rows it should keep.
BeforeProfitFactor == QuantileStep(filter_df, filter_args.composite_quantile_threshold)
KeptByProfitFactor ==
    SelectSeq(BeforeProfitFactor.rows, LAMBDA row :
        GreaterEq(ProfitFactorOrZero(row.profit_factor), filter_args.min_profit_factor))

\* C18 as stated: the step keeps the rows whose profit factor, 0 when
\* missing or not a number, is at or above min_profit_factor, and no row
\* without a numeric profit factor is in the output.
C18_AsStated ==
    (df_filtered # None /\ "profit_factor" \in filter_df.columns /\ filter_df.rows # <<>>) =>
        /\ df_filtered.rows =
              DrawdownStep([BeforeProfitFactor EXCEPT !.rows = KeptByProfitFactor],
                           filter_args.max_drawdown_ratio).rows
        /\ \A i \in 1..Len(df_filtered.rows) : ~NoProfitFactor(df_filtered.rows[i])

\* C18 amended: the step keeps the rows whose profit factor, 0 when missing
\* or not a number, is at or above min_profit_factor; a row without a
\* numeric profit factor is out of the output when min_profit_factor is
\* above 0, and the step keeps it when min_profit_factor is 0 or below.
C18_ProfitFactorKeepsIff ==
    (df_filtered # None /\ "profit_factor" \in filter_df.columns /\ filter_df.rows # <<>>) =>
        /\ df_filtered.rows =
              DrawdownStep([BeforeProfitFactor EXCEPT !.rows = KeptByProfitFactor],
                           filter_args.max_drawdown_ratio).rows
        /\ Greater(filter_args.min_profit_factor, Num(0)) =>
              \A i \in 1..Len(df_filtered.rows) : ~NoProfitFactor(df_filtered.rows[i])
        /\ ~Greater(filter_args.min_profit_factor, Num(0)) =>
              \A i \in 1..Len(BeforeProfitFactor.rows) :
                  NoProfitFactor(BeforeProfitFactor.rows[i]) =>
                      \E j \in 1..Len(KeptByProfitFactor) :
                          KeptByProfitFactor[j] = BeforeProfitFactor.rows[i]

\* C18's case: with min_profit_factor 0 the step kept a row without a
\* numeric profit factor and one whose profit factor is 0, and removed one
\* below 0.
C18_Witness ==
    /\ df_filtered # None
    /\ filter_df.columns = {"profit_factor"}
    /\ filter_args.min_profit_factor = Num(0)
    /\ \E i \in 1..Len(filter_df.rows) : filter_df.rows[i].profit_factor = Num(-1)
    /\ \E i \in 1..Len(df_filtered.rows) : NoProfitFactor(df_filtered.rows[i])
    /\ \A i \in 1..Len(df_filtered.rows) : df_filtered.rows[i].profit_factor # Num(-1)

----------------------------------------------------------------------------
(* The scorer on cells that are missing, infinite or text.                 *)

\* A CompositeScore is missing when a z-score it sums is NaN, or when its
\* products hold +inf and -inf together.
ProductSign(term) == IF term.weight < 0 THEN -term.z.n ELSE term.z.n
ScoreMissing(score) ==
    \/ \E m \in 1..Len(score) : isnull(score[m].z)
    \/ \E m, n \in 1..Len(score) :
          /\ isinf(score[m].z) /\ isinf(score[n].z)
          /\ ProductSign(score[m]) > 0 /\ ProductSign(score[n]) < 0

\* C23: with the five required columns present the call returns, and every
\* row has a CompositeScore that is not missing, whatever the cells hold.
C23_ScoreDefined ==
    (scored_df # None /\ required_base_columns \subseteq score_df.columns) =>
        /\ scored_df.status = "returned"
        /\ \A i \in 1..Len(score_df.rows) :
              ~ScoreMissing(score_df.rows[i].CompositeScore)

\* C23's case: a table was scored whose max_drawdown_duration column holds
\* a missing cell next to two numbers that differ, so that the column has a
\* z-score that is NaN before it is filled.
C23_Witness ==
    /\ scored_df # None
    /\ scored_df.status = "returned"
    /\ {score_df.rows[i].max_drawdown_duration : i \in 1..Len(score_df.rows)}
           = {Num(1), Num(4), nan}
    /\ \A i \in 1..Len(score_df.rows) : ~ScoreMissing(score_df.rows[i].CompositeScore)

----------------------------------------------------------------------------
(* The filter's rows against the rows it was given.                        *)

\* The rows of a table at the positions marked in keep, in their order.
RowsAt(rows, keep) ==
    LET positions == SelectSeq([i \in 1..Len(rows) |-> i], LAMBDA i : keep[i])
    IN  Series([j \in 1..Len(positions) |-> rows[positions[j]]])

SubSequenceOf(rows, of) ==
    \E keep \in [1..Len(of) -> BOOLEAN] : Series(rows) = RowsAt(of, keep)

\* The quantile step was entered: it converts the CompositeScore column.
QuantileEntered ==
    /\ filter_df.rows # <<>>
    /\ filter_args.composite_quantile_threshold # None
    /\ Greater(filter_args.composite_quantile_threshold, Num(0))
    /\ "CompositeScore" \in filter_df.columns
    /\ \E i \in 1..Len(filter_df.rows) : ~isnull(filter_df.rows[i].CompositeScore)

\* The input rows with a score of text turned to NaN.
InputRowsConverted ==
    Series([i \in 1..Len(filter_df.rows) |->
        [filter_df.rows[i] EXCEPT !.CompositeScore = IF @.k = "str" THEN nan ELSE @]])

\* C24 as stated: the rows returned are a sub-sequence of the input rows,
\* and the table passed in is not modified.
C24_AsStated ==
    df_filtered # None => SubSequenceOf(df_filtered.rows, filter_df.rows)

\* The rows returned are a sub-sequence of the input rows, in which, when
\* the quantile step was entered, a CompositeScore of text reads NaN; the
\* columns are the input's.
ReturnedFromInput ==
    df_filtered # None =>
        /\ df_filtered.columns = filter_df.columns
        /\ SubSequenceOf(df_filtered.rows,
                         IF QuantileEntered THEN InputRowsConverted ELSE filter_df.rows)

\* C24 amended: the rows returned are a sub-sequence of the input rows (no
\* row added, none twice, the input order kept), up to a CompositeScore of
\* text, which reads NaN when the quantile step was entered; and the call
\* leaves the table passed in as it was.
C24_SubSequence == []ReturnedFromInput /\ [][filter_df' = filter_df]_vars

\* C24's case: of two rows that differ the filter removed the first and
\* kept the second.
C24_Witness ==
    /\ df_filtered # None
    /\ Len(filter_df.rows) = 2
    /\ filter_df.rows[1] # filter_df.rows[2]
    /\ df_filtered.rows = <<filter_df.rows[2]>>

\* The threshold lies in (0, 1] and the input holds a score that is a
\* number.
ThresholdInUnit ==
    /\ filter_args.composite_quantile_threshold # None
    /\ Greater(filter_args.composite_quantile_threshold, Num(0))
    /\ ~Greater(filter_args.composite_quantile_threshold, Num(1))
SomeNumericScore ==
    /\ "CompositeScore" \in filter_df.columns
    /\ \E i \in 1..Len(filter_df.rows) : filter_df.rows[i].CompositeScore.k = "num"

\* The positions of the rows that hold the greatest score that is a number.
HoldsMaxScore(rows) ==
    {i \in 1..Len(rows) :
        /\ rows[i].CompositeScore.k = "num"
        /\ \A j \in 1..Len(filter_df.rows) :
              filter_df.rows[j].CompositeScore.k = "num" =>
                  ~Less(rows[i].CompositeScore, filter_df.rows[j].CompositeScore)}

\* The rows the quantile step leaves.
AfterQuantile == QuantileStep(filter_df, filter_args.composite_quantile_threshold).rows

\* C25: with a threshold in (0, 1] and a score that is a number in the
\* input, the quantile step leaves a row: every row with the greatest score
\* is kept, and no row is kept whose score is missing.
C25_MaxScoreSurvives ==
    (df_filtered # None /\ ThresholdInUnit /\ SomeNumericScore) =>
        /\ AfterQuantile # <<>>
        /\ Cardinality(HoldsMaxScore(AfterQuantile)) =
               Cardinality(HoldsMaxScore(filter_df.rows))
        /\ \A i \in 1..Len(AfterQuantile) : AfterQuantile[i].CompositeScore.k = "num"

\* C25's case: of a row with a score and a row whose score is missing the
\* quantile step, with a threshold in (0, 1], kept the first alone.
C25_Witness ==
    /\ df_filtered # None
    /\ ThresholdInUnit
    /\ Len(filter_df.rows) = 2
    /\ filter_df.rows[1].CompositeScore = Num(2)
    /\ filter_df.rows[2].CompositeScore = nan
    /\ AfterQuantile = <<filter_df.rows[1]>>

====
